---- MODULE Spec2Model ----
(***************************************************************************)
(* A model of codex_bridge_mcp.py: the session store (SessionStore), the   *)
(* upstream client (CodexMcpClient) and the bridge server                  *)
(* (CodexBridgeServer) with its entry loop.                                *)
(*                                                                         *)
(* Python values are encoded as follows.                                   *)
(*   Optional[x]  : <<>> for None, <<x>> for a value.                      *)
(*   float / int  : integers (captured_at counts seconds).                 *)
(*   JSON values  : records [t, n, s] with t in {"null","num","str"}.      *)
(*   dict         : a function whose DOMAIN is the set of keys.            *)
(***************************************************************************)
EXTENDS Integers, Sequences, FiniteSets, TLC

\* ------------------------------------------------------------------ bounds
\* Number of distinct conversation ids the store is driven with.
MaxConv == 2
\* Upper end of the history_entry_count values the store is driven to.
MaxHist == 2
\* Number of stored sessions and largest page size of the pagination runs.
MaxSessions == 3
MaxLimit == 3
\* Downstream request ids in use, tools/call requests accepted, upstream
\* children spawned and upstream stdout lines read in one run.
MaxDown == 2
MaxCalls == 2
MaxClients == 2
MaxRead == 2
MaxExits == 2

ConvIdOf == <<"c1", "c2", "c3", "c4", "c5">>
ConvIds == {ConvIdOf[i] : i \in 1..MaxConv}
Names == {"n1"}
\* The wall-clock readings time.time() can return while a log is loaded.
LoadTimes == {8}

None == <<>>
Some(x) == <<x>>

VARIABLES
  by_id,      \* SessionStore._by_id
  order,      \* SessionStore._order
  log,        \* the lines of <state>/sessions.jsonl
  ret,        \* what the last store operation returned
  first,      \* history: id -> the record as add inserted it
  touched,    \* history: ids updated or incremented since their insert
  pg,         \* a client paging through list: its limit, cursor and pages
  succ,       \* history: id -> codex-reply successes counted since its insert
  \* CodexBridgeServer
  client,         \* _client: 0 for None, else the index of a CodexMcpClient
  inflight,       \* _inflight: downstream id -> InflightRequest
  should_exit,    \* _should_exit
  session_queue,  \* _session_queue
  mainout,        \* the frame main wrote for the call it accepted in this step
  mcancel,        \* entry loop, in $/cancelRequest: the upstream id to cancel
  tools_cache,    \* _tools_cache
  mlist,          \* entry loop, in tools/list: the id of the request, or null
  \* CodexMcpClient, one per child process spawned
  nclients,       \* children spawned so far
  alive,          \* _proc.poll() is None
  next_id,        \* _next_id
  pending,        \* _pending: the ids with a registered queue
  chan,           \* the queues' contents: id -> response put by the reader
  sess,           \* _session_by_request_id
  upin,           \* the $/cancelRequest written to a child's stdin in this step
  issued,         \* history: the ids _new_id returned, in order
  \* the threads: caller 0 is the entry loop, caller d the worker of id d
  pc,             \* where the thread is
  cl,             \* the CodexMcpClient it works on
  rid,            \* the upstream request id of its current request
  kind,           \* that request: "init" (initialize) or "call" (tools/call)
  resp,           \* the upstream response its tools/call returned
  tool,           \* worker: the tool name of its call
  wname,          \* worker: the name argument of its codex call
  frame,          \* worker: its reply frame
  nrep,           \* history: frames the worker wrote for this request
  ncalls,         \* tools/call requests accepted so far
  nread,          \* upstream stdout lines read so far
  \* the two output streams, a write at a time
  wlock,          \* _write_lock of the stream: the thread holding it, or 0
  wire,           \* what reached the stream: the pieces, in order
  wpc,            \* a thread in _send: where it is
  wst,            \* the stream it sends on
  wsent,          \* frames it has sent
  \* a tool handler on the arguments of its call
  call_in,        \* the tool and the arguments the caller gave
  call_out,       \* what the handler passes to call_tool, once it has
  \* the reader thread of each client
  reader,         \* FALSE once _read_stdout has ended on an exception
  \* history of the cancels
  cancelled_out,  \* the upstream calls still waited for that a cancel
                  \* found outstanding: pairs of child and request id
  \* history of the tools list
  cache_from      \* the child _tools_cache was composed from, or 0

store_vars == <<by_id, order, log>>
client_vars == <<nclients, alive, next_id, pending, chan, sess, issued>>
caller_vars == <<pc, cl, rid, kind, resp>>
worker_vars == <<tool, wname, frame, nrep>>
server_vars == <<client, inflight, should_exit, session_queue, mainout, mcancel,
                 tools_cache, mlist>>
wire_vars == <<wlock, wire, wpc, wst, wsent>>
args_vars == <<call_in, call_out>>
reader_vars == <<reader>>
hist_vars == <<cancelled_out, cache_from>>
bridge_vars == <<succ, upin, server_vars, client_vars, caller_vars, worker_vars,
                 ncalls, nread, wire_vars, args_vars,
                 reader_vars, hist_vars>>
vars == <<by_id, order, log, ret, first, touched, pg, bridge_vars>>

\* ------------------------------------------------------------ SessionInfo
SessionInfo(cid, at, model, hec, name) ==
  [conversation_id |-> cid, captured_at |-> at, model |-> model,
   model_provider_id |-> None, approval_policy |-> None,
   sandbox_policy |-> None, cwd |-> None, reasoning_effort |-> None,
   rollout_path |-> None, history_log_id |-> None,
   history_entry_count |-> hec, name |-> name]

\* A with_name that builds a new record of the id and the name alone.
with_name_only(info, name) ==
  SessionInfo(info.conversation_id, info.captured_at, None, None, Some(name))

with_name(info, name) == [info EXCEPT !.name = Some(name)]

\* An increment that restarts the counter instead of adding to it.
with_incremented_history_reset(info) ==
  [info EXCEPT !.history_entry_count = Some(1)]

with_incremented_history(info) ==
  LET current == IF info.history_entry_count = None
                 THEN 0 ELSE info.history_entry_count[1]
  IN [info EXCEPT !.history_entry_count = Some(current + 1)]

\* ----------------------------------------------------------------- JSON
Jnull == [t |-> "null", n |-> 0, s |-> ""]
Jnum(n) == [t |-> "num", n |-> n, s |-> ""]
Jstr(s) == [t |-> "str", n |-> 0, s |-> s]
JOptStr(o) == IF o = None THEN Jnull ELSE Jstr(o[1])
JOptNum(o) == IF o = None THEN Jnull ELSE Jnum(o[1])
\* Python truthiness of a JSON scalar (None, 0, 0.0 and "" are falsy).
Truthy(j) == \/ j.t = "num" /\ j.n # 0
             \/ j.t = "str" /\ j.s # ""
AsOptStr(j) == IF j.t = "str" THEN Some(j.s) ELSE None
AsOptNum(j) == IF j.t = "num" THEN Some(j.n) ELSE None

\* One line of the log: the compact JSON text of the record dict.
_session_to_record(info) ==
  [kind |-> "obj",
   conversation_id |-> Jstr(info.conversation_id),
   captured_at |-> Jnum(info.captured_at),
   model |-> JOptStr(info.model),
   model_provider_id |-> JOptStr(info.model_provider_id),
   approval_policy |-> JOptStr(info.approval_policy),
   sandbox_policy |-> JOptStr(info.sandbox_policy),
   cwd |-> JOptStr(info.cwd),
   reasoning_effort |-> JOptStr(info.reasoning_effort),
   rollout_path |-> JOptStr(info.rollout_path),
   history_log_id |-> JOptNum(info.history_log_id),
   history_entry_count |-> JOptNum(info.history_entry_count),
   name |-> JOptStr(info.name)]

\* _load, one line: <<>> when the line is skipped, else <<info>>.
\* float(obj.get("captured_at") or time.time()): a falsy value is replaced by
\* the clock, a non-numeric string makes float() raise and the line is skipped.
ParseLine(line, now) ==
  IF line.kind # "obj" THEN None
  ELSE IF ~(line.conversation_id.t = "str" /\ line.conversation_id.s # "")
  THEN None
  ELSE IF Truthy(line.captured_at) /\ line.captured_at.t = "str" THEN None
  ELSE Some([conversation_id |-> line.conversation_id.s,
             captured_at |-> IF Truthy(line.captured_at)
                             THEN line.captured_at.n ELSE now,
             model |-> AsOptStr(line.model),
             model_provider_id |-> AsOptStr(line.model_provider_id),
             approval_policy |-> AsOptStr(line.approval_policy),
             sandbox_policy |-> AsOptStr(line.sandbox_policy),
             cwd |-> AsOptStr(line.cwd),
             reasoning_effort |-> AsOptStr(line.reasoning_effort),
             rollout_path |-> AsOptStr(line.rollout_path),
             history_log_id |-> AsOptNum(line.history_log_id),
             history_entry_count |-> AsOptNum(line.history_entry_count),
             name |-> AsOptStr(line.name)])

\* dict assignment d[k] = v
Put(d, k, v) == [x \in DOMAIN d \cup {k} |-> IF x = k THEN v ELSE d[x]]
\* del d[k]
Del(d, k) == [x \in DOMAIN d \ {k} |-> d[x]]
EmptyDict == [x \in {} |-> None]

RECURSIVE LoadLines(_, _, _, _)
LoadLines(lines, now, byid, ord) ==
  IF lines = <<>> THEN [by_id |-> byid, order |-> ord]
  ELSE LET p == ParseLine(Head(lines), now)
       IN IF p = None THEN LoadLines(Tail(lines), now, byid, ord)
          ELSE LoadLines(Tail(lines), now,
                         Put(byid, p[1].conversation_id, p[1]),
                         IF p[1].conversation_id \in DOMAIN byid
                         THEN ord ELSE Append(ord, p[1].conversation_id))

\* SessionStore._load on a log, read while the clock shows `now`.
_load(lines, now) == LoadLines(lines, now, EmptyDict, <<>>)

RECURSIVE RecordLines(_, _)
RecordLines(byid, ord) ==
  IF ord = <<>> THEN <<>>
  ELSE IF Head(ord) \in DOMAIN byid
       THEN <<_session_to_record(byid[Head(ord)])>> \o RecordLines(byid, Tail(ord))
       ELSE RecordLines(byid, Tail(ord))

\* SessionStore._rewrite_file: the whole log from memory.
_rewrite_file(byid, ord) == RecordLines(byid, ord)

\* ------------------------------------------------------------ SessionStore
\* Each operation runs under SessionStore._lock, so it is one atomic step.  It
\* is written as a function of the store st = [by_id, order, log] that yields
\* the store it leaves behind and the value it returns.
Store == [by_id |-> by_id, order |-> order, log |-> log]

\* add that lets the last write win.
add_overwrite(st, info) ==
  [st |-> [by_id |-> Put(st.by_id, info.conversation_id, info),
           order |-> IF info.conversation_id \in DOMAIN st.by_id
                     THEN st.order ELSE Append(st.order, info.conversation_id),
           log |-> Append(st.log, _session_to_record(info))],
   ret |-> None]

\* add that appends a line to the log even when the id is already present.
add_relog(st, info) ==
  IF info.conversation_id \in DOMAIN st.by_id
  THEN [st |-> [st EXCEPT !.log = Append(st.log, _session_to_record(info))],
        ret |-> None]
  ELSE [st |-> [by_id |-> Put(st.by_id, info.conversation_id, info),
                order |-> Append(st.order, info.conversation_id),
                log |-> Append(st.log, _session_to_record(info))],
        ret |-> None]

add(st, info) ==
  IF info.conversation_id \in DOMAIN st.by_id
  THEN [st |-> st, ret |-> None]
  ELSE [st |-> [by_id |-> Put(st.by_id, info.conversation_id, info),
                order |-> Append(st.order, info.conversation_id),
                log |-> Append(st.log, _session_to_record(info))],
        ret |-> None]

update(st, cid, name) ==
  IF cid \notin DOMAIN st.by_id THEN [st |-> st, ret |-> None]
  ELSE IF name # None
  THEN LET updated == with_name(st.by_id[cid], name[1])
           byid == Put(st.by_id, cid, updated)
       IN [st |-> [by_id |-> byid, order |-> st.order,
                   log |-> _rewrite_file(byid, st.order)],
           ret |-> Some(updated)]
  ELSE [st |-> st, ret |-> Some(st.by_id[cid])]

delete(st, cid) ==
  IF cid \notin DOMAIN st.by_id THEN [st |-> st, ret |-> FALSE]
  ELSE LET byid == Del(st.by_id, cid)
           ord == SelectSeq(st.order, LAMBDA c : c # cid)
       IN [st |-> [by_id |-> byid, order |-> ord,
                   log |-> _rewrite_file(byid, ord)],
           ret |-> TRUE]

increment_history(st, cid) ==
  IF cid \notin DOMAIN st.by_id THEN [st |-> st, ret |-> None]
  ELSE LET updated == with_incremented_history(st.by_id[cid])
           byid == Put(st.by_id, cid, updated)
       IN [st |-> [by_id |-> byid, order |-> st.order,
                   log |-> _rewrite_file(byid, st.order)],
           ret |-> Some(updated)]

get(st, cid) == IF cid \in DOMAIN st.by_id THEN Some(st.by_id[cid]) ELSE None

count(st) == Cardinality(DOMAIN st.by_id)

\* The store after an operation: r is what the operation yielded.
StoreBecomes(r) ==
  /\ by_id' = r.st.by_id
  /\ order' = r.st.order
  /\ log' = r.st.log

\* ------------------------------------------------------------ list / cursor
\* str(n) and int(s) on decimal text; a string is a sequence of characters.
DigitChars == <<"0", "1", "2", "3", "4", "5", "6", "7", "8", "9">>
DigitOf(ch) == (CHOOSE i \in 1..10 : DigitChars[i] = ch) - 1
IsDigit(ch) == \E i \in 1..10 : DigitChars[i] = ch

RECURSIVE str(_)
str(n) == IF n < 0 THEN <<"-">> \o str(0 - n)
          ELSE IF n < 10 THEN <<DigitChars[n + 1]>>
          ELSE str(n \div 10) \o <<DigitChars[(n % 10) + 1]>>

RECURSIVE DigitsValue(_, _)
DigitsValue(s, acc) ==
  IF s = <<>> THEN acc ELSE DigitsValue(Tail(s), acc * 10 + DigitOf(Head(s)))

\* int(cursor), with ValueError mapped to 0 as SessionStore.list does.
int_or_zero(s) ==
  LET body == IF s # <<>> /\ Head(s) = "-" THEN Tail(s) ELSE s
  IN IF body = <<>> \/ \E i \in 1..Len(body) : ~IsDigit(body[i]) THEN 0
     ELSE IF s # <<>> /\ Head(s) = "-" THEN 0 - DigitsValue(body, 0)
     ELSE DigitsValue(body, 0)

Max(a, b) == IF a > b THEN a ELSE b
Min(a, b) == IF a < b THEN a ELSE b
Reverse(s) == [i \in 1..Len(s) |-> s[Len(s) + 1 - i]]

_session_info_payload(info) ==
  [conversationId |-> info.conversation_id, name |-> info.name,
   capturedAt |-> info.captured_at, model |-> info.model,
   modelProviderId |-> info.model_provider_id,
   approvalPolicy |-> info.approval_policy,
   sandboxPolicy |-> info.sandbox_policy, cwd |-> info.cwd,
   reasoningEffort |-> info.reasoning_effort,
   rolloutPath |-> info.rollout_path, historyLogId |-> info.history_log_id,
   historyEntryCount |-> info.history_entry_count]

RECURSIVE Payloads(_, _)
Payloads(byid, ids) ==
  IF ids = <<>> THEN <<>>
  ELSE IF Head(ids) \in DOMAIN byid
       THEN <<_session_info_payload(byid[Head(ids)])>> \o Payloads(byid, Tail(ids))
       ELSE Payloads(byid, Tail(ids))

\* ids[start:end] of Python, 0-based and clipped.
Slice(s, start, end) ==
  IF start >= end THEN <<>> ELSE SubSeq(s, start + 1, Min(end, Len(s)))

\* list whose next cursor is the size of the page instead of its end offset.
list_page_size_cursor(st, limit, cursor) ==
  LET start == Max(0, IF cursor = None THEN 0 ELSE int_or_zero(cursor[1]))
      ids == Reverse(st.order)
      end == Min(Len(ids), start + Max(1, limit))
  IN [data |-> Payloads(st.by_id, Slice(ids, start, end)),
      nextCursor |-> IF end < Len(ids) THEN Some(str(end - start)) ELSE None]

list(st, limit, cursor) ==
  LET start == Max(0, IF cursor = None THEN 0 ELSE int_or_zero(cursor[1]))
      ids == Reverse(st.order)
      end == Min(Len(ids), start + Max(1, limit))
  IN [data |-> Payloads(st.by_id, Slice(ids, start, end)),
      nextCursor |-> IF end < Len(ids) THEN Some(str(end)) ELSE None]

\* ------------------------------------------------------- the bridge: state
DownIds == 1..MaxDown
Callers == 0..MaxDown
Clients == 1..MaxClients
UpstreamTools == {"codex", "codex-reply"}
LocalTools == {"codex-bridge-delete-session"}
\* The conversation the bridge runs are about.
Conv == ConvIdOf[1]

\* InflightRequest(cancel_event=threading.Event())
InflightRequest == [cancel_event |-> FALSE, upstream_request_id |-> None]

\* The id member of a JSON-RPC message, a JSON value: the integer n, true (as
\* a dict key True equals 1), the string of the digits of n, an array, and
\* null (None, which msg.get("id") also gives for a missing member).
IdInt(n) == [t |-> "int", n |-> n]
IdTrue == [t |-> "bool", n |-> 1]
IdStr(n) == [t |-> "str", n |-> n]
IdArray == [t |-> "array", n |-> 0]
IdNull == [t |-> "null", n |-> 0]

\* ---------------------------------------------------------- the two streams
MaxWriters == 2
MaxFrames == 2

\* The threads that call _send: the entry loop and the workers.
Writers == 1..MaxWriters
\* sys.stdout, written by CodexBridgeServer._send (line 1085), and the stdin
\* of the child, written by CodexMcpClient._send (line 504).
Streams == {"stdout", "stdin"}

\* threading.Lock() at lines 414 and 1048, and nothing written yet.
WireIdle ==
  /\ wlock = [s \in Streams |-> 0]
  /\ wire = [s \in Streams |-> <<>>]
  /\ wpc = [t \in Writers |-> "idle"]
  /\ wst = [t \in Writers |-> "stdout"]
  /\ wsent = [t \in Writers |-> 0]

\* No call whose arguments are followed.
ArgsIdle == call_in = None /\ call_out = None

\* No reader thread has ended (started at line 420, one for each client).
ReaderIdle == reader = [k \in Clients |-> TRUE]

\* No cancel has arrived and no list is cached.
HistIdle == cancelled_out = {} /\ cache_from = 0

\* The state CodexBridgeServer.__init__ and main leave before the first line.
BridgeIdle ==
  /\ WireIdle
  /\ client = 0
  /\ inflight = EmptyDict
  /\ should_exit = FALSE
  /\ tools_cache = None
  /\ mlist = IdNull
  /\ session_queue = <<>>
  /\ mainout = None
  /\ mcancel = 0
  /\ nclients = 0
  /\ alive = [k \in Clients |-> FALSE]
  /\ next_id = [k \in Clients |-> 1]
  /\ pending = [k \in Clients |-> {}]
  /\ chan = [k \in Clients |-> EmptyDict]
  /\ sess = [k \in Clients |-> EmptyDict]
  /\ upin = None
  /\ issued = [k \in Clients |-> <<>>]
  /\ pc = [c \in Callers |-> IF c = 0 THEN "read" ELSE "idle"]
  /\ cl = [c \in Callers |-> 0]
  /\ rid = [c \in Callers |-> 0]
  /\ kind = [c \in Callers |-> "none"]
  /\ resp = [c \in Callers |-> "none"]
  /\ tool = [d \in DownIds |-> "none"]
  /\ wname = [d \in DownIds |-> None]
  /\ frame = [d \in DownIds |-> None]
  /\ nrep = [d \in DownIds |-> 0]
  /\ ncalls = 0
  /\ nread = 0

\* ------------------------------------------------- the store, driven directly
NoPager == [limit |-> 0, cursor |-> None, seen |-> <<>>, pages |-> 0,
            done |-> FALSE]

\* The records add is driven with: per id, one captured at time 0 with no
\* optional field and one captured later with a model and a history count.
InfosIn ==
  {SessionInfo(c, 0, None, None, None) : c \in ConvIds}
    \cup {SessionInfo(c, 7, Some("gpt-5.2"), Some(0), None) : c \in ConvIds}

HistOf(info) == IF info.history_entry_count = None
                THEN 0 ELSE info.history_entry_count[1]

StoreInit ==
  /\ by_id = EmptyDict
  /\ order = <<>>
  /\ log = <<>>
  /\ ret = [op |-> "init", cid |-> "", val |-> None]
  /\ first = EmptyDict
  /\ touched = {}
  /\ pg = NoPager
  /\ succ = EmptyDict
  /\ BridgeIdle
  /\ ArgsIdle
  /\ ReaderIdle
  /\ HistIdle

Add(info) ==
  /\ StoreBecomes(add(Store, info))
  /\ ret' = [op |-> "add", cid |-> info.conversation_id, val |-> None]
  /\ first' = IF info.conversation_id \in DOMAIN first
              THEN first ELSE Put(first, info.conversation_id, info)
  /\ UNCHANGED <<touched, pg, bridge_vars>>

Update(cid, name) ==
  LET r == update(Store, cid, Some(name))
  IN /\ StoreBecomes(r)
     /\ ret' = [op |-> "update", cid |-> cid, val |-> r.ret]
     /\ touched' = IF cid \in DOMAIN first THEN touched \cup {cid} ELSE touched
     /\ UNCHANGED <<first, pg, bridge_vars>>

IncrementHistory(cid) ==
  /\ cid \in DOMAIN by_id => HistOf(by_id[cid]) < MaxHist
  /\ LET r == increment_history(Store, cid)
     IN /\ StoreBecomes(r)
        /\ ret' = [op |-> "increment_history", cid |-> cid, val |-> r.ret]
  /\ touched' = IF cid \in DOMAIN first THEN touched \cup {cid} ELSE touched
  /\ UNCHANGED <<first, pg, bridge_vars>>

Delete(cid) ==
  LET r == delete(Store, cid)
  IN /\ StoreBecomes(r)
     /\ ret' = [op |-> "delete", cid |-> cid, val |-> r.ret]
     /\ first' = Del(first, cid)
     /\ touched' = touched \ {cid}
     /\ UNCHANGED <<pg, bridge_vars>>

Get(cid) ==
  /\ ret' = [op |-> "get", cid |-> cid, val |-> get(Store, cid)]
  /\ UNCHANGED <<by_id, order, log, first, touched, pg, bridge_vars>>

Count ==
  /\ ret' = [op |-> "count", cid |-> "", val |-> count(Store)]
  /\ UNCHANGED <<by_id, order, log, first, touched, pg, bridge_vars>>

\* SessionStore.__init__ on the same directory: a new store loaded from the log.
Restart ==
  \E now \in LoadTimes :
    LET loaded == _load(log, now)
    IN /\ by_id' = loaded.by_id
       /\ order' = loaded.order
       /\ ret' = [op |-> "restart", cid |-> "", val |-> None]
       /\ first' = loaded.by_id
       /\ touched' = {}
       /\ UNCHANGED <<log, pg, bridge_vars>>

StoreNext ==
  \/ \E info \in InfosIn : Add(info)
  \/ \E cid \in ConvIds, name \in Names : Update(cid, name)
  \/ \E cid \in ConvIds : IncrementHistory(cid)
  \/ \E cid \in ConvIds : Delete(cid)
  \/ \E cid \in ConvIds : Get(cid)
  \/ Count
  \/ Restart

SpecStore == StoreInit /\ [][StoreNext]_vars

\* ------------------------------------------------------- paging through list
ListIds == {ConvIdOf[i] : i \in 1..MaxSessions}

\* Every insertion order of at most MaxSessions distinct ids.
InsertionOrders ==
  UNION {{q \in [1..n -> ListIds] : \A i, j \in 1..n : i # j => q[i] # q[j]} :
           n \in 0..MaxSessions}

ListInit ==
  /\ order \in InsertionOrders
  /\ by_id = [c \in {order[i] : i \in 1..Len(order)} |->
                SessionInfo(c, 7, None, None, None)]
  /\ log = _rewrite_file(by_id, order)
  /\ ret = [op |-> "init", cid |-> "", val |-> None]
  /\ first = by_id
  /\ touched = {}
  /\ pg \in {[NoPager EXCEPT !.limit = l] : l \in 1..MaxLimit}
  /\ succ = EmptyDict
  /\ BridgeIdle
  /\ ArgsIdle
  /\ ReaderIdle
  /\ HistIdle

PageIds(data) == [i \in 1..Len(data) |-> data[i].conversationId]

\* The client asks for the next page, passing the cursor it was last given.
ListPage ==
  /\ ~pg.done
  /\ LET r == list(Store, pg.limit, pg.cursor)
     IN /\ ret' = [op |-> "list", cid |-> "", val |-> r]
        /\ pg' = [pg EXCEPT !.cursor = r.nextCursor,
                            !.seen = @ \o PageIds(r.data),
                            !.pages = @ + 1,
                            !.done = (r.nextCursor = None)]
  /\ UNCHANGED <<by_id, order, log, first, touched, bridge_vars>>

ListNext == ListPage

SpecList == ListInit /\ [][ListNext]_vars

\* ----------------------------------------------------- the bridge: helpers
SessionCacheMax == 2048
SessionQueueMax == 2048

\* A loop that does not look at the exit flag.
Running_on == TRUE

\* main, line 1804: the loop goes on while should_exit() is false; when it
\* ends the process ends, and its threads with it.
Running == ~should_exit

_tool_text_result(text, is_error) == [content |-> text, isError |-> is_error]
_jsonrpc_response(msg_id, result) ==
  [id |-> msg_id, env |-> "result", result |-> result]
\* The text of a tool result: its message, a sequence of strings, and the
\* conversationId it names.
Text(msg, conv) == [msg |-> msg, conversationId |-> conv]

\* The sentinel handle returns for a request a worker will answer.
_ASYNC == [id |-> IdNull, env |-> "_ASYNC", result |-> None]
\* main: the frame written for what handle returned (None or _ASYNC: nothing).
main_writes(r) == IF r = None \/ r = Some(_ASYNC) THEN None ELSE r

\* _normalize_upstream_tool_response that does not look at the error member.
_normalize_upstream_tool_response_ok(r) == FALSE

\* _normalize_upstream_tool_response (lines 843-863): is_error of an upstream
\* envelope.
_normalize_upstream_tool_response(r) == r # "ok"

\* The except clauses of _tool_call_worker (lines 1631-1636): the frame for a
\* raised error. CancelledError and TimeoutError give str(e), any other
\* exception "Bridge error: " and str(e). The timeout's text names the
\* upstream request id (line 536).
ErrorFrame(d, e) ==
  _jsonrpc_response(IdInt(d), _tool_text_result(
    Text(CASE e = "CancelledError" -> <<"Request cancelled">>
           [] e = "TimeoutError" ->
                <<"Timed out waiting for Codex MCP response to request ",
                  rid[d]>>
           [] OTHER -> <<"Bridge error: ", e>>, None), TRUE))

\* A worker that ends on an exception without writing a frame.
PcAfterRaise_silent(c) ==
  IF c # 0 THEN "fin" ELSE IF mlist = IdNull THEN "read" ELSE "tools"

\* An exception raised in caller c: a worker turns it into its reply, the
\* entry loop swallows it inside $/cancelRequest (line 1688) and falls back
\* on its own tool list inside _tools_list (line 1097).
PcAfterRaise(c) ==
  IF c # 0 THEN "reply" ELSE IF mlist = IdNull THEN "read" ELSE "tools"
FrameAfterRaise(c, e) ==
  IF c = 0 THEN frame ELSE [frame EXCEPT ![c] = Some(ErrorFrame(c, e))]

\* SessionInfo.from_session_configured_event, read while the clock shows 7.
from_session_configured_event(cid) == SessionInfo(cid, 7, None, None, None)

\* A cancel_request that writes nothing.
cancel_request_never(k, r) == None

\* CodexMcpClient.cancel_request: what it writes. Best effort: _send raises
\* for a child that has exited and the error is swallowed.
cancel_request(k, r) ==
  IF alive[k]
  THEN Some([client |-> k, method |-> "$/cancelRequest", id |-> r])
  ELSE None

\* The cancel_event a wait of caller c polls (initialize passes none).
CancelSet(c) ==
  c # 0 /\ kind[c] = "call" /\ c \in DOMAIN inflight /\ inflight[c].cancel_event

\* history of the store as the bridge's own adds and deletes change it
Inserted(info) ==
  /\ first' = IF info.conversation_id \in DOMAIN by_id
              THEN first ELSE Put(first, info.conversation_id, info)
  /\ succ' = IF info.conversation_id \in DOMAIN by_id
             THEN succ ELSE Put(succ, info.conversation_id, 0)

\* ----------------------------------------------- the bridge: the entry loop
\* Variables of the directly driven store and pager and of the streams written
\* a piece at a time, which a step of the bridge leaves.
driver_kept == <<ret, touched, pg, wire_vars, args_vars, reader_vars>>
driver_vars == <<driver_kept, hist_vars>>
disk_vars == <<by_id, order, log, first, succ>>
local_vars == <<cl, rid, kind, resp>>
srv_vars == <<client, inflight, should_exit, session_queue, mcancel,
              tools_cache, mlist>>

\* No call is accepted in this step.
Quiet == mainout' = None

\* The locals of caller c's upstream request become these.
Locals(c, k, r, kd, rs) ==
  /\ cl' = [cl EXCEPT ![c] = k]
  /\ rid' = [rid EXCEPT ![c] = r]
  /\ kind' = [kind EXCEPT ![c] = kd]
  /\ resp' = [resp EXCEPT ![c] = rs]

\* The request of caller c is over and its locals are gone.
DropLocals(c) == Locals(c, 0, 0, "none", "none")

\* Caller c raises e: see PcAfterRaise and FrameAfterRaise.
Raise(c, e) ==
  /\ pc' = [pc EXCEPT ![c] = PcAfterRaise(c)]
  /\ frame' = FrameAfterRaise(c, e)
  /\ mcancel' = IF c = 0 THEN 0 ELSE mcancel
  /\ DropLocals(c)

\* The worker of d has its result and goes on to write it.
Return(d, result) ==
  /\ pc' = [pc EXCEPT ![d] = "reply"]
  /\ frame' = [frame EXCEPT ![d] = result]
  /\ DropLocals(d)

\* handle, tools/call of an id not in flight (lines 1772-1781), and main.
\* The downstream client gives a call the lowest id it has not in flight.
AcceptToolsCall(d, t, nm) ==
  /\ Running /\ pc[0] = "read"
  /\ d \notin DOMAIN inflight
  /\ ncalls < MaxCalls
  /\ \A e \in DownIds : e < d => e \in DOMAIN inflight
  /\ nm # None => t = "codex"
  /\ inflight' = Put(inflight, d, InflightRequest)
  /\ pc' = [pc EXCEPT ![d] = IF t \in UpstreamTools THEN "gc" ELSE "local"]
  /\ tool' = [tool EXCEPT ![d] = t]
  /\ wname' = [wname EXCEPT ![d] = nm]
  /\ frame' = [frame EXCEPT ![d] = None]
  /\ nrep' = [nrep EXCEPT ![d] = 0]
  /\ mainout' = main_writes(Some(_ASYNC))
  /\ upin' = None
  /\ ncalls' = ncalls + 1
  /\ UNCHANGED <<driver_vars, disk_vars, client_vars, local_vars, client,
                 should_exit, tools_cache, mlist, session_queue, mcancel, nread>>

\* handle, tools/call of an id in flight (lines 1773-1776): the frame it
\* returns, which main writes.
DuplicateFrame(d) ==
  _jsonrpc_response(IdInt(d), _tool_text_result(
    Text(<<"Duplicate request id (already in-flight)">>, None), TRUE))

\* A rejection that registers a fresh entry over the one in flight.
RejectDuplicate_replace(d) ==
  /\ Running /\ pc[0] = "read"
  /\ d \in DOMAIN inflight
  /\ inflight' = Put(inflight, d, InflightRequest)
  /\ mainout' = main_writes(Some(DuplicateFrame(d)))
  /\ upin' = None
  /\ UNCHANGED <<driver_vars, disk_vars, client, should_exit, session_queue,
                 mcancel, tools_cache, mlist, client_vars, caller_vars,
                 worker_vars, ncalls, nread>>

\* handle returns the frame under _inflight_lock and main writes it.
RejectDuplicate(d) ==
  /\ Running /\ pc[0] = "read"
  /\ d \in DOMAIN inflight
  /\ mainout' = main_writes(Some(DuplicateFrame(d)))
  /\ upin' = None
  /\ UNCHANGED <<driver_vars, disk_vars, srv_vars, client_vars, caller_vars,
                 worker_vars, ncalls, nread>>

\* _get_client, line 1056: the client is there and its child has not exited.
ClientLive == client # 0 /\ alive[client]

\* The upstream call of worker d is outstanding on a live child: sent, its
\* pending entry in place, the worker in _wait_for_response.
Outstanding(d) ==
  /\ pc[d] = "wait" /\ kind[d] = "call"
  /\ alive[cl[d]] /\ rid[d] \in pending[cl[d]]

\* handle, $/cancelRequest (lines 1678-1690). With the upstream id known and
\* the client live the notification goes out at once; with the client gone
\* _get_client starts a new child first.
HandleCancel(d) ==
  /\ Running /\ pc[0] = "read"
  /\ d \in DOMAIN inflight
  /\ inflight' = [inflight EXCEPT ![d].cancel_event = TRUE]
  /\ Quiet
  /\ LET up == inflight[d].upstream_request_id
     IN IF up = None THEN upin' = None /\ UNCHANGED <<mcancel, pc>>
        ELSE IF ClientLive
        THEN /\ upin' = cancel_request(client, up[1])
             /\ UNCHANGED <<mcancel, pc>>
        ELSE /\ mcancel' = up[1]
             /\ pc' = [pc EXCEPT ![0] = "gc"]
             /\ upin' = None
  /\ cancelled_out' = IF Outstanding(d)
                      THEN cancelled_out \cup {<<cl[d], rid[d]>>}
                      ELSE cancelled_out
  /\ UNCHANGED <<driver_kept, cache_from, disk_vars, nclients, alive, next_id, pending,
                 chan, sess, issued, local_vars, tool, wname, frame,
                 nrep, client, should_exit, tools_cache, mlist, session_queue, ncalls, nread>>

\* The process ends: its daemon threads and its memory go; the log stays on
\* disk.
ProcessEnds ==
  /\ tools_cache' = None
  /\ mlist' = IdNull
  /\ client' = 0
  /\ inflight' = EmptyDict
  /\ session_queue' = <<>>
  /\ mcancel' = 0
  /\ nclients' = 0
  /\ alive' = [k \in Clients |-> FALSE]
  /\ next_id' = [k \in Clients |-> 1]
  /\ pending' = [k \in Clients |-> {}]
  /\ chan' = [k \in Clients |-> EmptyDict]
  /\ sess' = [k \in Clients |-> EmptyDict]
  /\ upin' = None
  /\ issued' = [k \in Clients |-> <<>>]
  /\ cl' = [c \in Callers |-> 0]
  /\ rid' = [c \in Callers |-> 0]
  /\ kind' = [c \in Callers |-> "none"]
  /\ resp' = [c \in Callers |-> "none"]
  /\ tool' = [d \in DownIds |-> "none"]
  /\ wname' = [d \in DownIds |-> None]
  /\ frame' = [d \in DownIds |-> None]
  /\ nrep' = [d \in DownIds |-> 0]
  /\ ncalls' = 0
  /\ nread' = 0
  /\ cancelled_out' = {}
  /\ cache_from' = 0
  /\ UNCHANGED <<driver_kept, disk_vars>>

\* handle, exit (lines 1674-1676); main then finds the flag set, leaves its
\* loop (line 1804) and the process ends: Running is false from here on.
HandleExit ==
  /\ Running /\ pc[0] = "read"
  /\ should_exit' = TRUE
  /\ pc' = [c \in Callers |-> IF c = 0 THEN "read" ELSE "idle"]
  /\ Quiet
  /\ ProcessEnds

\* handle raises and nothing in main catches it: the process ends on the
\* traceback, its exit flag as it was.
Crash ==
  /\ Running /\ pc[0] = "read"
  /\ pc' = [c \in Callers |-> IF c = 0 THEN "crashed" ELSE "idle"]
  /\ Quiet
  /\ ProcessEnds
  /\ UNCHANGED should_exit

\* ------------------------------- the bridge: _get_client and the upstream call
\* _new_id that hands out the counter without advancing it.
_new_id_stale(nxt) == [rid |-> nxt, next |-> nxt]

\* _new_id (lines 491-495), under _id_lock: the id and the next counter.
_new_id(nxt) == [rid |-> nxt, next |-> nxt + 1]

\* _request / _request_with_id, first half, by caller c on client k for a
\* request of kind kd: _new_id and the registration of a fresh queue under
\* _pending_lock. The caller goes on to _send.
IssueOn(c, k, kd) ==
  LET r == _new_id(next_id[k])
  IN /\ next_id' = [next_id EXCEPT ![k] = r.next]
     /\ issued' = [issued EXCEPT ![k] = Append(@, r.rid)]
     /\ pending' = [pending EXCEPT ![k] = @ \cup {r.rid}]
     /\ chan' = [chan EXCEPT ![k] = Del(@, r.rid)]
     /\ Locals(c, k, r.rid, kd, "none")
     /\ pc' = [pc EXCEPT ![c] = "send"]

\* The request a caller makes on the client _get_client returned: a worker
\* call_tool (lines 1213, 1263), the entry loop list_tools (line 1096).
RequestOf(c) == IF c = 0 THEN "list" ELSE "call"

\* handle, line 1687, once _get_client has returned client k.
CancelOn(k) ==
  /\ upin' = cancel_request(k, mcancel)
  /\ mcancel' = 0
  /\ pc' = [pc EXCEPT ![0] = "read"]
  /\ DropLocals(0)

\* _get_client (lines 1055-1062): the unlocked check, and either the return
\* of the live client, on which the caller issues its request, or Popen of a
\* new child, whose constructor goes on to _initialize. A child that cannot
\* be started raises.
GetClient(c) ==
  /\ Running /\ pc[c] = "gc"
  /\ IF ClientLive
     THEN /\ IF c = 0 /\ mlist = IdNull
             THEN /\ CancelOn(client)
                  /\ UNCHANGED <<next_id, issued, pending, chan>>
             ELSE /\ IssueOn(c, client, RequestOf(c))
                  /\ upin' = None
                  /\ UNCHANGED mcancel
          /\ UNCHANGED <<nclients, alive, frame>>
     ELSE \/ /\ nclients < MaxClients
             /\ nclients' = nclients + 1
             /\ alive' = [alive EXCEPT ![nclients + 1] = TRUE]
             /\ IssueOn(c, nclients + 1, "init")
             /\ upin' = None
             /\ UNCHANGED <<frame, mcancel>>
          \/ /\ Raise(c, "Codex binary not configured")
             /\ upin' = None
             /\ UNCHANGED <<nclients, alive, next_id, issued, pending, chan>>
  /\ Quiet
  /\ UNCHANGED <<driver_vars, disk_vars, client, inflight, should_exit, tools_cache, mlist,
                 session_queue, sess, tool, wname, nrep, ncalls, nread>>

\* _send (lines 497-505) of the request; the deadline of the wait starts.
Send(c) ==
  /\ Running /\ pc[c] = "send"
  /\ LET k == cl[c]
     IN IF ~alive[k]
        THEN Raise(c, "Codex MCP process has exited")
        ELSE /\ pc' = [pc EXCEPT ![c] = "wait"]
             /\ UNCHANGED <<frame, mcancel, local_vars>>
  /\ Quiet /\ upin' = None
  /\ UNCHANGED <<driver_vars, disk_vars, client, inflight, should_exit, tools_cache, mlist,
                 session_queue, nclients, alive, next_id, pending,
                 chan, sess, issued, tool, wname, nrep,
                 ncalls, nread>>

\* _wait_for_response without the check of cancel_event.
_wait_for_response_deaf(c, late) ==
  IF ~alive[cl[c]] THEN "exited"
  ELSE IF late THEN "TimeoutError"
  ELSE "get"

\* _wait_for_response without the check of _proc.poll().
_wait_for_response_nopoll(c, late) ==
  IF CancelSet(c) THEN "CancelledError"
  ELSE IF late THEN "TimeoutError"
  ELSE "get"

\* _wait_for_response (lines 522-536): what the checks at the top of the loop
\* decide, in the order the code makes them; late says that the clock has
\* passed the deadline when the code reads it.
_wait_for_response(c, late) ==
  IF CancelSet(c) THEN "CancelledError"
  ELSE IF ~alive[cl[c]] THEN "exited"
  ELSE IF late THEN "TimeoutError"
  ELSE "get"

\* A turn of the loop whose checks end the wait: the pending entry goes (and
\* the queue with the caller's last reference to it), a cancelled request is
\* cancelled upstream, and the error is raised.
WaitCheck(c) ==
  /\ Running /\ pc[c] = "wait"
  /\ \E late \in BOOLEAN :
       LET k == cl[c]
           o == _wait_for_response(c, late)
       IN /\ o # "get"
          /\ pending' = [pending EXCEPT ![k] = @ \ {rid[c]}]
          /\ chan' = [chan EXCEPT ![k] = Del(@, rid[c])]
          /\ upin' = IF o = "CancelledError"
                     THEN cancel_request(k, rid[c]) ELSE None
          /\ Raise(c, IF o = "exited" THEN "Codex MCP process exited" ELSE o)
  /\ cancelled_out' = cancelled_out \ {<<cl[c], rid[c]>>}
  /\ Quiet
  /\ UNCHANGED <<driver_kept, cache_from, disk_vars, client, inflight, should_exit, tools_cache, mlist,
                 session_queue, nclients, alive, next_id, sess, issued,
                 tool, wname, nrep, ncalls, nread>>

\* q.get(timeout=min(0.25, remaining)) (lines 537-540) returns the response
\* the reader has put. A tools/call that returned sets
\* inflight.upstream_request_id (lines 1221, 1271); a tools/list goes back to
\* _tools_list.
WaitGet(c) ==
  /\ Running /\ pc[c] = "wait"
  /\ LET k == cl[c]
     IN /\ rid[c] \in DOMAIN chan[k]
        /\ chan' = [chan EXCEPT ![k] = Del(@, rid[c])]
        /\ Locals(c, k, rid[c], kind[c],
                  IF kind[c] = "init" THEN "none" ELSE chan[k][rid[c]].body)
        /\ CASE kind[c] = "init" ->
                  /\ pc' = [pc EXCEPT ![c] = "assign"]
                  /\ UNCHANGED inflight
             [] kind[c] = "list" ->
                  /\ pc' = [pc EXCEPT ![c] = "tools"]
                  /\ UNCHANGED inflight
             [] kind[c] = "call" ->
                  /\ inflight' = [inflight EXCEPT
                       ![c].upstream_request_id = Some(rid[c])]
                  /\ pc' = [pc EXCEPT ![c] = IF tool[c] = "codex"
                                             THEN "sess_check" ELSE "post"]
  /\ cancelled_out' = cancelled_out \ {<<cl[c], rid[c]>>}
  /\ Quiet /\ upin' = None
  /\ UNCHANGED <<driver_kept, cache_from, disk_vars, client, should_exit, tools_cache, mlist, session_queue,
                 mcancel, nclients, alive, next_id, pending, sess, issued, worker_vars, ncalls, nread>>

\* _get_client, line 1061: the constructor returned, self._client is assigned.
AssignClient(c) ==
  /\ Running /\ pc[c] = "assign"
  /\ client' = cl[c]
  /\ pc' = [pc EXCEPT ![c] = "gc_ret"]
  /\ Quiet /\ upin' = None
  /\ UNCHANGED <<driver_vars, disk_vars, inflight, should_exit, tools_cache, mlist, session_queue,
                 mcancel, client_vars, local_vars, worker_vars,
                 ncalls, nread>>

\* _get_client, line 1062: return self._client, read again, and what the
\* caller wanted the client for.
ReturnClient(c) ==
  /\ Running /\ pc[c] = "gc_ret"
  /\ IF c = 0 /\ mlist = IdNull
     THEN /\ CancelOn(client)
          /\ UNCHANGED <<next_id, issued, pending, chan>>
     ELSE /\ IssueOn(c, client, RequestOf(c))
          /\ upin' = None
          /\ UNCHANGED mcancel
  /\ Quiet
  /\ UNCHANGED <<driver_vars, disk_vars, client, inflight, should_exit, tools_cache, mlist,
                 session_queue, nclients, alive, sess,
                 worker_vars, ncalls, nread>>

\* ------------------------------------------ the bridge: the tool handlers
\* get_session_for_request without a deadline.
get_session_for_request_patient(c, late) ==
  IF CancelSet(c) THEN "CancelledError"
  ELSE IF rid[c] \in DOMAIN sess[cl[c]] THEN "info"
  ELSE "wait"

\* get_session_for_request (lines 617-626): what one turn of its loop decides;
\* late says that the clock has passed the deadline when the code reads it.
get_session_for_request(c, late) ==
  IF CancelSet(c) THEN "CancelledError"
  ELSE IF rid[c] \in DOMAIN sess[cl[c]] THEN "info"
  ELSE IF late THEN "none"
  ELSE "wait"

\* The worker's reply frame for a tool result.
Result(d, msg, conv, is_error) ==
  Some(_jsonrpc_response(IdInt(d),
                         _tool_text_result(Text(msg, conv), is_error)))

\* _handle_codex_tool, lines 1223-1243: the session wait and the result.
SessCheck(d) ==
  /\ Running /\ pc[d] = "sess_check"
  /\ \E late \in BOOLEAN :
     LET o == get_session_for_request(d, late)
         session == sess[cl[d]][rid[d]]
     IN /\ o # "wait"
        /\ CASE o = "CancelledError" ->
                  /\ Raise(d, o)
                  /\ UNCHANGED <<by_id, order, log>>
             [] o = "info" ->
                  /\ StoreBecomes(IF wname[d] # None
                                  THEN update(Store, session.conversation_id,
                                              wname[d])
                                  ELSE [st |-> Store, ret |-> None])
                  /\ Return(d, Result(d, <<"output">>,
                              Some(session.conversation_id),
                              _normalize_upstream_tool_response(resp[d])))
                  /\ UNCHANGED mcancel
             [] o = "none" ->
                  /\ Return(d, Result(d, <<"Failed to capture session info">>,
                                      None, TRUE))
                  /\ UNCHANGED <<by_id, order, log, mcancel>>
  /\ Quiet /\ upin' = None
  /\ UNCHANGED <<driver_vars, first, succ, client, inflight, should_exit, tools_cache, mlist,
                 session_queue, client_vars, tool, wname, nrep, ncalls, nread>>

\* _handle_codex_reply_tool, lines 1273-1295 up to the recovery wait.
Post(d) ==
  /\ Running /\ pc[d] = "post"
  /\ IF ~_normalize_upstream_tool_response(resp[d])
     THEN LET r == increment_history(Store, Conv)
          IN /\ StoreBecomes(r)
             /\ succ' = IF Conv \in DOMAIN by_id
                        THEN [succ EXCEPT ![Conv] = @ + 1] ELSE succ
             /\ IF r.ret = None
                THEN /\ pc' = [pc EXCEPT ![d] = "recover"]
                     /\ Locals(d, cl[d], rid[d], kind[d], resp[d])
                     /\ UNCHANGED frame
                ELSE Return(d, Result(d, <<"output">>, Some(Conv), FALSE))
     ELSE /\ Return(d, Result(d, <<"output">>, Some(Conv), TRUE))
          /\ UNCHANGED <<by_id, order, log, succ>>
  /\ Quiet /\ upin' = None
  /\ UNCHANGED <<driver_vars, first, srv_vars, client_vars, tool, wname,
                 nrep, ncalls, nread>>

\* _handle_codex_reply_tool, lines 1281-1289: the recovery of a record the
\* index lost, from the session event of this request.
Recover(d) ==
  /\ Running /\ pc[d] = "recover"
  /\ \E late \in BOOLEAN :
     LET o == get_session_for_request(d, late)
         recovered_session == sess[cl[d]][rid[d]]
     IN /\ o # "wait"
        /\ CASE o = "CancelledError" ->
                  /\ Raise(d, o)
                  /\ UNCHANGED <<by_id, order, log, first, succ>>
             [] o = "info" ->
                  /\ StoreBecomes(add(Store, recovered_session))
                  /\ Inserted(recovered_session)
                  /\ Return(d, Result(d, <<"output recovered">>, Some(Conv),
                                      FALSE))
                  /\ UNCHANGED mcancel
             [] o = "none" ->
                  /\ Return(d, Result(d, <<"output">>, Some(Conv), FALSE))
                  /\ UNCHANGED <<by_id, order, log, first, succ, mcancel>>
  /\ Quiet /\ upin' = None
  /\ UNCHANGED <<driver_vars, client, inflight, should_exit, tools_cache, mlist, session_queue,
                 client_vars, tool, wname, nrep, ncalls,
                 nread>>

\* _handle_delete_session_tool (lines 1297-1328) on the conversation.
Local(d) ==
  /\ Running /\ pc[d] = "local"
  /\ LET r == delete(Store, Conv)
     IN /\ StoreBecomes(r)
        /\ first' = Del(first, Conv)
        /\ succ' = Del(succ, Conv)
        /\ Return(d, IF r.ret THEN Result(d, <<"deleted">>, Some(Conv), FALSE)
                     ELSE Result(d, <<"Session not found">>, None, TRUE))
  /\ Quiet /\ upin' = None
  /\ UNCHANGED <<driver_vars, srv_vars, client_vars, tool, wname, nrep, ncalls, nread>>

\* _tool_call_worker: self._send of the result or of the error frame.
Reply(d) ==
  /\ Running /\ pc[d] = "reply"
  /\ nrep' = [nrep EXCEPT ![d] = @ + 1]
  /\ pc' = [pc EXCEPT ![d] = "fin"]
  /\ Quiet /\ upin' = None
  /\ UNCHANGED <<driver_vars, disk_vars, srv_vars, client_vars, local_vars,
                 tool, wname, frame, ncalls, nread>>

\* A worker that ends without its finally clause.
Finally_keep(d) ==
  /\ Running /\ pc[d] = "fin"
  /\ pc' = [pc EXCEPT ![d] = "idle"]
  /\ tool' = [tool EXCEPT ![d] = "none"]
  /\ wname' = [wname EXCEPT ![d] = None]
  /\ frame' = [frame EXCEPT ![d] = None]
  /\ nrep' = [nrep EXCEPT ![d] = 0]
  /\ Quiet /\ upin' = None
  /\ UNCHANGED <<driver_vars, disk_vars, srv_vars, client_vars, local_vars,
                 ncalls, nread>>

\* _tool_call_worker, finally (lines 1637-1639); the thread ends.
Finally(d) ==
  /\ Running /\ pc[d] = "fin"
  /\ inflight' = Del(inflight, d)
  /\ pc' = [pc EXCEPT ![d] = "idle"]
  /\ tool' = [tool EXCEPT ![d] = "none"]
  /\ wname' = [wname EXCEPT ![d] = None]
  /\ frame' = [frame EXCEPT ![d] = None]
  /\ nrep' = [nrep EXCEPT ![d] = 0]
  /\ Quiet /\ upin' = None
  /\ UNCHANGED <<driver_vars, disk_vars, client, should_exit, tools_cache, mlist, session_queue,
                 mcancel, client_vars, local_vars, ncalls, nread>>

\* ------------------------------- the bridge: reader, writer and the child
\* The id member of a line of the child is a JSON value. Python's
\* isinstance(x, int) holds for int and bool.
is_int(v) == v.t \in {"int", "bool"}

\* The ids a line of child k can carry: the integers of the pending requests
\* and the first one the bridge has not issued, true, and the string of 1.
LineIds(k) ==
  {IdInt(n) : n \in pending[k] \cup {next_id[k]}} \cup {IdTrue, IdStr(1)}

\* The tools/call requests of child k that a worker is on.
CallIds(k) ==
  {rid[d] : d \in {e \in DownIds : cl[e] = k /\ kind[e] = "call"}}

\* _read_stdout's pop of the pending entry (lines 485-486).
pending_pop(k, n) == pending[k] \ {n}

\* _read_stdout, lines 482-489: a line with an id member that the reader
\* takes for the id of a pending request. nread counts the lines of
\* tools/call traffic the reader acted on.
ReadResponse(k, v, body) ==
  /\ Running /\ k <= nclients /\ reader[k]
  /\ is_int(v) /\ v.n \in pending[k]
  /\ v.n \in CallIds(k) => nread < MaxRead
  /\ nread' = IF v.n \in CallIds(k) THEN nread + 1 ELSE nread
  /\ pending' = [pending EXCEPT ![k] = pending_pop(k, v.n)]
  /\ chan' = [chan EXCEPT ![k] = Put(@, v.n, [id |-> v, body |-> body])]
  /\ Quiet /\ upin' = None
  /\ UNCHANGED <<driver_vars, disk_vars, srv_vars, nclients, alive, next_id,
                 sess, issued, caller_vars, worker_vars, ncalls>>

\* _read_stdout, lines 482-489: a line whose id is no integer or has no
\* pending entry is dropped.
DropResponse(k, v) ==
  /\ Running /\ k <= nclients /\ reader[k]
  /\ ~(is_int(v) /\ v.n \in pending[k])
  /\ UNCHANGED vars

\* The tools/call requests child k is serving or has answered to a worker
\* that is still at work: those it sends session_configured events for.
Serving(k) ==
  {rid[d] : d \in {e \in DownIds : /\ cl[e] = k /\ kind[e] = "call"
                                   /\ pc[e] \in {"wait", "sess_check",
                                                  "post", "recover"}}}

\* A reader that never clears the map of the sessions.
ReadEvent_grow(k, n) ==
  /\ Running /\ k <= nclients /\ reader[k] /\ nread < MaxRead
  /\ nread' = nread + 1
  /\ LET info == from_session_configured_event(Conv)
         put == Put(sess[k], n, info)
     IN /\ sess' = [sess EXCEPT ![k] = put]
        /\ session_queue' = IF Len(session_queue) < SessionQueueMax
                            THEN Append(session_queue, info)
                            ELSE session_queue
  /\ Quiet /\ upin' = None
  /\ UNCHANGED <<driver_vars, disk_vars, client, inflight, should_exit, tools_cache, mlist,
                 mcancel, nclients, alive, next_id, pending, chan, issued, caller_vars, worker_vars, ncalls>>

\* _read_stdout, lines 457-480: a session_configured event for request n,
\* and _enqueue_session (lines 1064-1068).
ReadEvent(k, n) ==
  /\ Running /\ k <= nclients /\ reader[k] /\ nread < MaxRead
  /\ nread' = nread + 1
  /\ LET info == from_session_configured_event(Conv)
         put == Put(sess[k], n, info)
     IN /\ sess' = [sess EXCEPT ![k] =
             IF Cardinality(DOMAIN put) > SessionCacheMax
             THEN EmptyDict ELSE put]
        /\ session_queue' = IF Len(session_queue) < SessionQueueMax
                            THEN Append(session_queue, info)
                            ELSE session_queue
  /\ Quiet /\ upin' = None
  /\ UNCHANGED <<driver_vars, disk_vars, client, inflight, should_exit, tools_cache, mlist,
                 mcancel, nclients, alive, next_id, pending, chan, issued, caller_vars, worker_vars, ncalls>>

\* A session writer that takes the record off the queue and forgets it.
SessionWriter_drop ==
  /\ Running /\ session_queue # <<>>
  /\ session_queue' = Tail(session_queue)
  /\ Quiet /\ upin' = None
  /\ UNCHANGED <<driver_vars, disk_vars, client, inflight, should_exit,
                 tools_cache, mlist, mcancel, client_vars, caller_vars,
                 worker_vars, ncalls, nread>>

\* _session_writer (lines 1070-1080): one record from the queue into the store.
SessionWriter ==
  /\ Running /\ session_queue # <<>>
  /\ StoreBecomes(add(Store, Head(session_queue)))
  /\ Inserted(Head(session_queue))
  /\ session_queue' = Tail(session_queue)
  /\ Quiet /\ upin' = None
  /\ UNCHANGED <<driver_vars, client, inflight, should_exit, tools_cache, mlist, mcancel,
                 client_vars, caller_vars, worker_vars, ncalls, nread>>

\* The child process of client k exits.
ChildExit(k) ==
  /\ Running /\ k <= nclients /\ alive[k]
  /\ Cardinality({j \in 1..nclients : ~alive[j]}) < MaxExits
  /\ alive' = [alive EXCEPT ![k] = FALSE]
  /\ Quiet /\ upin' = None
  /\ UNCHANGED <<driver_vars, disk_vars, srv_vars, nclients, next_id,
                 pending, chan, sess, issued, caller_vars,
                 worker_vars, ncalls, nread>>

\* ------------------------------------------------ the bridge: specification
\* The record of the conversation a sessions.jsonl of an earlier run holds.
StoredConv == SessionInfo(Conv, 7, None, None, None)
EmptyStore == [by_id |-> EmptyDict, order |-> <<>>, log |-> <<>>]

\* The bridge starts on the log of an earlier run.
Init ==
  /\ LET st == add(EmptyStore, StoredConv).st
     IN /\ by_id = st.by_id
        /\ order = st.order
        /\ log = st.log
  /\ first = by_id
  /\ succ = [c \in DOMAIN by_id |-> 0]
  /\ ret = [op |-> "init", cid |-> "", val |-> None]
  /\ touched = {}
  /\ pg = NoPager
  /\ BridgeIdle
  /\ ArgsIdle
  /\ ReaderIdle
  /\ HistIdle

\* The bridge starts without a log: the conversation of its first codex call
\* is new to the store.
InitFresh ==
  /\ by_id = EmptyDict
  /\ order = <<>>
  /\ log = <<>>
  /\ first = EmptyDict
  /\ succ = EmptyDict
  /\ ret = [op |-> "init", cid |-> "", val |-> None]
  /\ touched = {}
  /\ pg = NoPager
  /\ BridgeIdle
  /\ ArgsIdle
  /\ ReaderIdle
  /\ HistIdle

CallerStep(c) ==
  \/ GetClient(c)
  \/ Send(c)
  \/ WaitCheck(c)
  \/ WaitGet(c)
  \/ AssignClient(c)
  \/ ReturnClient(c)

\* The worker of a codex-reply or of a delete-session call.
ReplyWorkerStep(d) ==
  \/ CallerStep(d)
  \/ Post(d)
  \/ Recover(d)
  \/ Local(d)
  \/ Reply(d)
  \/ Finally(d)

\* The worker of any call.
WorkerStep(d) ==
  \/ ReplyWorkerStep(d)
  \/ SessCheck(d)

\* The entry loop on a line of a downstream client that uses the request ids
\* in ids, the tools in tools and the name arguments in nms, and gives a call
\* an id it has not in flight.
MainStep(ids, tools, nms) ==
  \/ \E d \in ids, t \in tools, nm \in nms : AcceptToolsCall(d, t, nm)
  \/ \E d \in ids : HandleCancel(d)
  \/ HandleExit
  \/ CallerStep(0)

\* The reader threads, the session writer and the child processes.
EnvStep ==
  \/ \E k \in 1..nclients, body \in {"ok", "error"} :
       \E v \in LineIds(k) : ReadResponse(k, v, body)
  \/ \E k \in 1..nclients : \E v \in LineIds(k) : DropResponse(k, v)
  \/ \E k \in 1..nclients : \E n \in Serving(k) : ReadEvent(k, n)
  \/ SessionWriter
  \/ \E k \in 1..nclients : ChildExit(k)

\* Up to MaxDown requests at a time, which continue or delete the stored
\* conversation.
Next ==
  \/ MainStep(DownIds, {"codex-reply"} \cup LocalTools, {None})
  \/ \E d \in DownIds : ReplyWorkerStep(d)
  \/ EnvStep

Spec == Init /\ [][Next]_vars

\* One downstream request at a time, of any tool, its session named or not,
\* and tools/call lines that repeat its id.
NextLive ==
  \/ MainStep({1}, UpstreamTools \cup LocalTools,
              {None} \cup {Some(n) : n \in Names})
  \/ RejectDuplicate(1)
  \/ WorkerStep(1)
  \/ EnvStep

\* One call at a time on a bridge without a log.
SpecFresh == InitFresh /\ [][NextLive]_vars

\* A thread inside a call takes a step whenever it can, the worker and the
\* entry loop inside _get_client alike; the steps of a wait include the one
\* that finds its deadline passed.
SpecLive ==
  Init /\ [][NextLive]_vars /\ WF_vars(WorkerStep(1)) /\ WF_vars(CallerStep(0))

\* A bridge without a log whose session writer thread keeps running: it takes
\* the next record off its queue whenever there is one.
SpecWriter == InitFresh /\ [][NextLive]_vars /\ WF_vars(SessionWriter)
\* ------------------------------------------- the entry loop on any line
\* JSON-RPC error codes (lines 39-41).
JSONRPC_PARSE_ERROR == -32700
JSONRPC_INVALID_REQUEST == -32600
JSONRPC_METHOD_NOT_FOUND == -32601

\* _jsonrpc_error (lines 73-77): the envelope whose payload is its error
\* member.
_jsonrpc_error(msg_id, code, message) ==
  [id |-> msg_id, env |-> "error", result |-> [code |-> code,
                                                message |-> message]]

\* A member of params, a JSON value: missing, a string, a number, true, an
\* empty array, a non-empty array or string that is no object, an object.
Absent == [t |-> "absent", s |-> "", a |-> None]
JStr(s) == [t |-> "str", s |-> s, a |-> None]
JNum5 == [t |-> "int", s |-> "5", a |-> None]
JEmptyArray == [t |-> "array0", s |-> "", a |-> None]
JArray == [t |-> "array", s |-> "", a |-> None]
\* The arguments object of a call, with its name member or without.
JArgs(nm) == [t |-> "object", s |-> "", a |-> nm]

\* bool(v) and isinstance(v, dict) of such a value.
truthy(v) == v.t \in {"int", "array", "object"} \/ (v.t = "str" /\ v.s # "")
is_dict(v) == v.t = "object"

\* The params member of a message: missing, arrays, or an object with the
\* members id, name and arguments.
NoParams == [t |-> "absent", id |-> IdNull, name |-> Absent, arguments |-> Absent]
ArrayParams == [NoParams EXCEPT !.t = "array"]
EmptyArrayParams == [NoParams EXCEPT !.t = "array0"]
Params(id, name, arguments) ==
  [t |-> "object", id |-> id, name |-> name, arguments |-> arguments]

\* msg.get("params") or {} (lines 1679, 1761): a falsy value gives the empty
\* dict, and so does an object without the members read.
params_or_empty(p) == IF p.t \in {"absent", "array0"} THEN NoParams ELSE p
\* params.get(...) raises AttributeError on a value that is no dict.
has_get(p) == p.t \in {"absent", "object"}

\* A message: a JSON object with the members method, id and params.
Msg(method, has_id, id, params) ==
  [method |-> method, has_id |-> has_id, id |-> id, params |-> params]
\* The object {}.
EmptyMsg == Msg("", FALSE, IdNull, NoParams)

\* A line of downstream stdin, by what is left of it after strip() and what
\* json.loads makes of that: nothing left, a JSONDecodeError, a value that is
\* no object (an array, a number, NaN), or an object.
BlankLine == [k |-> "blank", msg |-> EmptyMsg]
GarbageLine == [k |-> "garbage", msg |-> EmptyMsg]
ValueLine == [k |-> "value", msg |-> EmptyMsg]
ObjectLine(m) == [k |-> "object", msg |-> m]

\* _try_parse_json without the strip: a blank line goes to json.loads.
_try_parse_json_nostrip(line) ==
  CASE line.k \in {"blank", "garbage"} ->
         [msg |-> None, err_code |-> Some(JSONRPC_PARSE_ERROR),
          err_msg |-> <<"Parse error">>]
    [] line.k = "object" ->
         [msg |-> Some(line.msg), err_code |-> None, err_msg |-> <<>>]
    [] OTHER ->
         [msg |-> None, err_code |-> Some(JSONRPC_INVALID_REQUEST),
          err_msg |-> <<"Invalid Request">>]

\* _try_parse_json (lines 56-66).
_try_parse_json(line) ==
  CASE line.k = "blank" ->
         [msg |-> None, err_code |-> None, err_msg |-> <<>>]
    [] line.k = "garbage" ->
         [msg |-> None, err_code |-> Some(JSONRPC_PARSE_ERROR),
          err_msg |-> <<"Parse error">>]
    [] line.k = "object" ->
         [msg |-> Some(line.msg), err_code |-> None, err_msg |-> <<>>]
    [] OTHER ->
         [msg |-> None, err_code |-> Some(JSONRPC_INVALID_REQUEST),
          err_msg |-> <<"Invalid Request">>]

\* main writes frame f and nothing else happens.
Answer(f) ==
  /\ mainout' = main_writes(f)
  /\ upin' = None
  /\ UNCHANGED <<driver_vars, disk_vars, srv_vars, client_vars, caller_vars,
                 worker_vars, ncalls, nread>>

\* handle, line 1647: the id is a string, a number or null, and no bool.
valid_id(v) == v.t \in {"int", "str", "null"}

\* self._inflight.get(v): the key that equals v, or 0; an array has no hash
\* and get raises TypeError.
hashable(v) == v.t # "array"
inflight_key(v) ==
  IF v.t \in {"int", "bool"} /\ v.n \in DOMAIN inflight THEN v.n ELSE 0

\* handle, $/cancelRequest (lines 1678-1690) with params p.
CancelRequest(p) ==
  LET params == params_or_empty(p)
      cancel_id == params.id
  IN IF ~has_get(params) \/ ~hashable(cancel_id) THEN Crash
     ELSE IF inflight_key(cancel_id) = 0 THEN Answer(None)
     ELSE HandleCancel(inflight_key(cancel_id))

\* handle, tools/call (lines 1760-1781) with the integer id d and params p.
ToolsCall(d, p) ==
  LET params == params_or_empty(p)
      tool_name == params.name
      args == IF truthy(params.arguments) THEN params.arguments
              ELSE JArgs(None)
  IN IF ~has_get(params) THEN Crash
     ELSE IF tool_name.t # "str"
     THEN Answer(Some(_jsonrpc_response(IdInt(d), _tool_text_result(
            Text(<<"tools/call requires params.name: string">>, None),
            TRUE))))
     ELSE IF ~is_dict(args)
     THEN Answer(Some(_jsonrpc_response(IdInt(d), _tool_text_result(
            Text(<<"tools/call requires params.arguments: object">>, None),
            TRUE))))
     ELSE IF d \in DOMAIN inflight THEN RejectDuplicate(d)
     ELSE AcceptToolsCall(d, tool_name.s, args.a)

\* _bridge_tools and _bridge_extra_tools (lines 866-1024), by name.
_bridge_tools == <<"codex", "codex-reply">>
_bridge_extra_tools ==
  <<"codex-bridge-info", "codex-bridge-options", "codex-bridge-sessions",
    "codex-bridge-session", "codex-bridge-name-session",
    "codex-bridge-delete-session", "codex-bridge-export-session",
    "codex-bridge-read-rollout">>

\* list_tools (lines 589-595) on the envelope the child answered: the tools
\* of its result, which are the child's codex and codex-reply, and the empty
\* list for an envelope without a result.
list_tools(body) == IF body = "ok" THEN <<"codex", "codex-reply">> ELSE <<>>

\* _tools_list, lines 1100-1165: the names of the patched list. The patch
\* changes descriptions and schemas, and no name.
patched(base_tools) == base_tools \o _bridge_extra_tools

ToolsListFrame(msg_id, tools) == _jsonrpc_response(msg_id, [tools |-> tools])

\* handle, tools/list (line 1692) and _tools_list, lines 1089-1096: the cached
\* list, or _get_client and list_tools.
ToolsList(msg_id) ==
  IF tools_cache # None
  THEN Answer(Some(ToolsListFrame(msg_id, tools_cache[1])))
  ELSE /\ mlist' = msg_id
       /\ pc' = [pc EXCEPT ![0] = "gc"]
       /\ Quiet /\ upin' = None
       /\ UNCHANGED <<driver_vars, disk_vars, client, inflight, should_exit,
                      session_queue, mcancel, tools_cache, client_vars,
                      local_vars, worker_vars, ncalls, nread>>

\* _tools_list, lines 1097-1165, and main: list_tools has returned the list
\* of the child's answer, or _get_client or list_tools has raised and the
\* list is the bridge's own; the patched list is cached, returned and written.
ToolsListReturn ==
  /\ Running /\ pc[0] = "tools"
  /\ LET base_tools == IF kind[0] = "list" THEN list_tools(resp[0])
                       ELSE _bridge_tools
     IN /\ tools_cache' = Some(patched(base_tools))
        /\ mainout' = main_writes(Some(ToolsListFrame(mlist,
                                                      patched(base_tools))))
  /\ mlist' = IdNull
  /\ pc' = [pc EXCEPT ![0] = "read"]
  /\ DropLocals(0)
  /\ cache_from' = IF kind[0] = "list" THEN cl[0] ELSE 0
  /\ upin' = None
  /\ UNCHANGED <<driver_kept, cancelled_out, disk_vars, client, inflight,
                 should_exit, session_queue, mcancel, client_vars,
                 worker_vars, ncalls, nread>>

\* The methods handle answers from constants when they carry an id:
\* initialize (lines 1650-1669) and the prompts and resources lists.
StaticMethods ==
  {"initialize", "prompts/list", "resources/list", "resources/templates/list"}

\* A method that is answered even when the message carries no id.
MethodNotFound_always(msg_id, method) ==
  Some(_jsonrpc_error(msg_id, JSONRPC_METHOD_NOT_FOUND,
                      <<"Method not found: ", method>>))

\* handle, lines 1783-1785: what it returns for a method it has no branch
\* for.
MethodNotFound(msg_id, method) ==
  IF msg_id # IdNull
  THEN Some(_jsonrpc_error(msg_id, JSONRPC_METHOD_NOT_FOUND,
                           <<"Method not found: ", method>>))
  ELSE None

\* handle (lines 1641-1785) on a message whose method is not resources/read
\* and whose id, when it is a tools/call, is an integer or no valid id.
Handle(m) ==
  LET msg_id == IF m.has_id THEN m.id ELSE IdNull
  IN IF m.has_id /\ ~valid_id(m.id)
     THEN Answer(Some(_jsonrpc_error(IdNull, JSONRPC_INVALID_REQUEST,
            <<"Invalid Request: id must be string, number, or null">>)))
     ELSE CASE m.method \in StaticMethods /\ msg_id # IdNull ->
                 Answer(Some(_jsonrpc_response(msg_id,
                                               [static |-> m.method])))
            [] m.method = "shutdown" /\ msg_id # IdNull ->
                 Answer(Some(_jsonrpc_response(msg_id, None)))
            [] m.method = "exit" -> HandleExit
            [] m.method = "$/cancelRequest" -> CancelRequest(m.params)
            [] m.method = "tools/list" /\ msg_id # IdNull -> ToolsList(msg_id)
            [] m.method = "tools/call" /\ msg_id # IdNull ->
                 ToolsCall(msg_id.n, m.params)
            [] OTHER -> Answer(MethodNotFound(msg_id, m.method))

\* main (lines 1793-1805) on one line of stdin.
ReadLine(line) ==
  /\ Running /\ pc[0] = "read"
  /\ LET p == _try_parse_json(line)
     IN IF p.err_code # None
        THEN Answer(Some(_jsonrpc_error(IdNull, p.err_code[1], p.err_msg)))
        ELSE IF p.msg = None \/ p.msg = Some(EmptyMsg) THEN Answer(None)
        ELSE Handle(p.msg[1])

\* ------------------------------------------------ the entry loop: its lines
\* The lines of a downstream client that numbers its calls 1 and calls a
\* tool the bridge runs by itself.
EntryTools == LocalTools

CallParams ==
  {NoParams, ArrayParams, EmptyArrayParams, Params(IdNull, JNum5, Absent)}
    \cup {Params(IdNull, JStr(t), a) :
            t \in EntryTools, a \in {Absent, JArray, JEmptyArray, JArgs(None)}}

CancelParams ==
  {NoParams, ArrayParams}
    \cup {Params(v, Absent, Absent) :
            v \in {IdInt(1), IdInt(2), IdTrue, IdStr(1), IdArray}}

Msgs ==
  {Msg(m, TRUE, IdInt(1), NoParams) :
     m \in StaticMethods \cup {"shutdown", "tools/list", "foo", ""}}
    \cup {Msg(m, TRUE, IdStr(1), NoParams) : m \in {"shutdown", "foo"}}
    \cup {Msg("foo", TRUE, v, NoParams) : v \in {IdNull, IdTrue, IdArray}}
    \cup {Msg(m, FALSE, IdNull, NoParams) :
            m \in {"exit", "shutdown", "tools/list", "tools/call", "foo"}}
    \cup {Msg("$/cancelRequest", FALSE, IdNull, p) : p \in CancelParams}
    \cup {Msg("tools/call", TRUE, IdInt(1), p) : p \in CallParams}
    \cup {EmptyMsg}

Lines == {BlankLine, GarbageLine, ValueLine} \cup {ObjectLine(m) : m \in Msgs}

\* The worker of a call of such a tool.
LocalWorkerStep(d) ==
  \/ Local(d)
  \/ Reply(d)
  \/ Finally(d)

\* The reader threads on the answers of the children, and the children.
ChildStep ==
  \/ \E k \in 1..nclients, body \in {"ok", "error"} :
       \E v \in LineIds(k) : ReadResponse(k, v, body)
  \/ \E k \in 1..nclients : \E v \in LineIds(k) : DropResponse(k, v)
  \/ \E k \in 1..nclients : ChildExit(k)

\* The entry loop on any of these lines, the worker of call 1, and the
\* children the entry loop starts for tools/list.
NextEntry ==
  \/ \E line \in Lines : ReadLine(line)
  \/ CallerStep(0)
  \/ ToolsListReturn
  \/ LocalWorkerStep(1)
  \/ ChildStep

SpecEntry == Init /\ [][NextEntry]_vars

\* The entry loop on tools/list requests and on codex-reply calls numbered 1,
\* the worker of such a call, the readers, the session writer and the
\* children.
NextTools ==
  \/ ReadLine(ObjectLine(Msg("tools/list", TRUE, IdInt(1), NoParams)))
  \/ AcceptToolsCall(1, "codex-reply", None)
  \/ CallerStep(0)
  \/ ToolsListReturn
  \/ CallerStep(1)
  \/ Post(1)
  \/ Reply(1)
  \/ Finally(1)
  \/ EnvStep

SpecTools == Init /\ [][NextTools]_vars

\* ------------------------------------------------- _send, a write at a time
\* CodexBridgeServer._send (lines 1082-1086) and CodexMcpClient._send (lines
\* 497-505) are the only writers of their streams. The payload of a frame
\* reaches the stream in two pieces: what write passes on while it runs, and
\* what flush passes on.
Piece(t, n, part) == [by |-> t, frame |-> n, part |-> part]

\* Everything but the streams.
program_vars ==
  <<by_id, order, log, ret, first, touched, pg, succ, upin, server_vars,
    client_vars, caller_vars, worker_vars, ncalls, nread, args_vars,
    reader_vars, hist_vars>>

\* A mutex that never holds a thread back.
lock_free_always(s) == TRUE

\* threading.Lock: acquire returns only while no thread holds the lock.
lock_free(s) == wlock[s] = 0

\* with self._write_lock: thread t enters, for a frame on stream s.
Acquire(t, s) ==
  /\ wpc[t] = "idle" /\ wsent[t] < MaxFrames
  /\ lock_free(s)
  /\ wlock' = [wlock EXCEPT ![s] = t]
  /\ wst' = [wst EXCEPT ![t] = s]
  /\ wpc' = [wpc EXCEPT ![t] = "locked"]
  /\ UNCHANGED <<wire, wsent, program_vars>>

\* stream.write(payload), lines 504 and 1085.
Write(t) ==
  /\ wpc[t] = "locked"
  /\ wire' = [wire EXCEPT ![wst[t]] = Append(@, Piece(t, wsent[t] + 1, 1))]
  /\ wpc' = [wpc EXCEPT ![t] = "written"]
  /\ UNCHANGED <<wlock, wst, wsent, program_vars>>

\* stream.flush(), lines 505 and 1086.
Flush(t) ==
  /\ wpc[t] = "written"
  /\ wire' = [wire EXCEPT ![wst[t]] = Append(@, Piece(t, wsent[t] + 1, 2))]
  /\ wpc' = [wpc EXCEPT ![t] = "flushed"]
  /\ UNCHANGED <<wlock, wst, wsent, program_vars>>

\* The with block ends: the lock is released.
Release(t) ==
  /\ wpc[t] = "flushed"
  /\ wlock' = [wlock EXCEPT ![wst[t]] = 0]
  /\ wsent' = [wsent EXCEPT ![t] = @ + 1]
  /\ wpc' = [wpc EXCEPT ![t] = "idle"]
  /\ UNCHANGED <<wire, wst, program_vars>>

NextWire ==
  \E t \in Writers :
    \/ \E s \in Streams : Acquire(t, s)
    \/ Write(t)
    \/ Flush(t)
    \/ Release(t)

SpecWire == Init /\ [][NextWire]_vars

\* --------------------------------------- the tool handlers on their arguments
\* _handle_codex_tool up to its call of call_tool (lines 1174-1215) and
\* _handle_codex_reply_tool up to its (lines 1259-1262), on the arguments
\* timeoutMs, reasoningEffort, reasoningSummary, config, model and taskType.

\* Everything but the call followed and the streams.
program_vars_of_args ==
  <<by_id, order, log, ret, first, touched, pg, succ, upin, server_vars,
    client_vars, caller_vars, worker_vars, ncalls, nread, reader_vars,
    hist_vars>>

\* timeoutMs as the caller's JSON has it.
MsAbsent == [t |-> "absent", n |-> 0]
Ms(n) == [t |-> "int", n |-> n]
MsTrue == [t |-> "bool", n |-> 1]
MsText == [t |-> "str", n |-> 0]

DefaultTimeoutMs == 600000
MinTimeoutMs == 1000
MaxTimeoutMs == 3600000

\* Lines 1191-1193 and 1260-1262, in milliseconds: timeout_s = 600.0, and
\* max(1.0, min(3600.0, timeout_ms / 1000.0)) for an int above 0 (True is an
\* int, of value 1).
timeout_of(v) ==
  IF v.t \in {"int", "bool"} /\ v.n > 0
  THEN Max(MinTimeoutMs, Min(MaxTimeoutMs, v.n))
  ELSE DefaultTimeoutMs

\* A config object: its keys with their values.
JConfig(f) == [t |-> "object", s |-> "", a |-> f]

DEFAULT_REASONING_EFFORT == "xhigh"

\* cfg = args.get("config"); {} unless a dict; dict(cfg); cfg[key] = value;
\* args["config"] = cfg (lines 1199-1204 and 1206-1211).
with_config_key(config, key, value) ==
  JConfig(Put(IF is_dict(config) THEN config.a ELSE EmptyDict, key, value))

\* Lines 1187-1189 and 1198-1211: the config that goes upstream.
rewrite_config(config, effort, summary) ==
  LET e == IF ~truthy(effort) THEN JStr(DEFAULT_REASONING_EFFORT) ELSE effort
      c1 == IF e.t = "str" /\ e.s # ""
            THEN with_config_key(config, "model_reasoning_effort", e.s)
            ELSE config
  IN IF summary.t = "str" /\ summary.s # ""
     THEN with_config_key(c1, "model_reasoning_summary", summary.s)
     ELSE c1

CHATGPT_AUTH_MODELS == {"gpt-5.2", "gpt-5.2-codex"}
API_AUTH_MODELS ==
  {"gpt-5.2", "gpt-5.2-codex", "gpt-5.2-mini", "gpt-5.2-nano", "o3", "o4-mini"}
TASK_TYPES == {"coding", "discussion", "research"}
DEFAULT_TASK_TYPE == "coding"
TASK_MODEL_DEFAULTS ==
  [t \in TASK_TYPES |-> IF t = "coding" THEN "gpt-5.2-codex" ELSE "gpt-5.2"]

\* A resolution that takes any model asked for.
_resolve_model_any(requested_model, task_type, available_models) ==
  LET effective_task ==
        IF task_type.s \in TASK_TYPES THEN task_type.s ELSE DEFAULT_TASK_TYPE
  IN IF ~truthy(requested_model)
     THEN [model |-> TASK_MODEL_DEFAULTS[effective_task], warning |-> None]
     ELSE [model |-> requested_model.s, warning |-> None]

\* _resolve_model (lines 820-840) on a model and a task type that are strings
\* or absent.
_resolve_model(requested_model, task_type, available_models) ==
  LET effective_task ==
        IF task_type.s \in TASK_TYPES THEN task_type.s ELSE DEFAULT_TASK_TYPE
      default_model == TASK_MODEL_DEFAULTS[effective_task]
  IN IF ~truthy(requested_model)
     THEN [model |-> default_model, warning |-> None]
     ELSE IF requested_model.s \in available_models
     THEN [model |-> requested_model.s, warning |-> None]
     ELSE [model |-> default_model,
           warning |-> Some(<<"Model '", requested_model.s,
                              "' not available. Using '", default_model,
                              "' instead.">>)]

\* What the caller can give.
TimeoutInputs ==
  {MsAbsent, MsTrue, MsText}
    \cup {Ms(n) : n \in {-5, 0, 1, 999, 1000, 1001, 600000, 3599999, 3600000,
                         3600001}}
EffortInputs == {Absent, JStr(""), JStr("high"), JNum5}
SummaryInputs == {Absent, JStr(""), JStr("auto")}
ConfigKeys == {"profile", "model_reasoning_effort", "model_reasoning_summary"}
CallerValue(key) ==
  IF key = "profile" THEN "work"
  ELSE IF key = "model_reasoning_effort" THEN "low" ELSE "detailed"
ConfigInputs ==
  {Absent, JStr("x")}
    \cup {JConfig([key \in S |-> CallerValue(key)]) : S \in SUBSET ConfigKeys}
ModelInputs == {Absent, JStr("")} \cup {JStr(m) : m \in {"gpt-5.2", "o3", "gpt-9"}}
TaskInputs == {Absent} \cup {JStr(t) : t \in TASK_TYPES \cup {"chat"}}
Catalogues == {CHATGPT_AUTH_MODELS, API_AUTH_MODELS}

CallArgs(tool_name, timeoutMs, effort, summary, config, model, task, avail) ==
  [tool |-> tool_name, timeoutMs |-> timeoutMs, reasoningEffort |-> effort,
   reasoningSummary |-> summary, config |-> config, model |-> model,
   taskType |-> task, available |-> avail]

CallInputs ==
  {CallArgs("codex", ms, e, s, c, m, t, av) :
     ms \in TimeoutInputs, e \in EffortInputs, s \in SummaryInputs,
     c \in ConfigInputs, m \in ModelInputs, t \in TaskInputs,
     av \in Catalogues}
  \cup {CallArgs("codex-reply", ms, Absent, Absent, c, Absent, Absent, av) :
          ms \in TimeoutInputs, c \in {Absent}, av \in Catalogues}

\* A worker is handed a call, with the store and the bridge as main leaves
\* them.
ArgsInit ==
  /\ by_id = EmptyDict
  /\ order = <<>>
  /\ log = <<>>
  /\ ret = [op |-> "init", cid |-> "", val |-> None]
  /\ first = EmptyDict
  /\ touched = {}
  /\ pg = NoPager
  /\ succ = EmptyDict
  /\ BridgeIdle
  /\ call_in \in {Some(a) : a \in CallInputs}
  /\ call_out = None
  /\ ReaderIdle
  /\ HistIdle

\* _handle_codex_tool, lines 1174-1215: the arguments of call_tool.
HandleCodexArgs ==
  /\ call_in # None /\ call_out = None
  /\ call_in[1].tool = "codex"
  /\ LET a == call_in[1]
         r == _resolve_model(a.model, a.taskType, a.available)
     IN call_out' = Some([timeout_ms |-> timeout_of(a.timeoutMs),
                          config |-> rewrite_config(a.config, a.reasoningEffort,
                                                    a.reasoningSummary),
                          model |-> r.model,
                          warning |-> r.warning])
  /\ UNCHANGED <<call_in, wire_vars, program_vars_of_args>>

\* _handle_codex_reply_tool, lines 1259-1262: timeoutMs is read and stays in
\* the arguments, which go upstream as they are.
HandleCodexReplyArgs ==
  /\ call_in # None /\ call_out = None
  /\ call_in[1].tool = "codex-reply"
  /\ LET a == call_in[1]
     IN call_out' = Some([timeout_ms |-> timeout_of(a.timeoutMs),
                          config |-> a.config,
                          model |-> "",
                          warning |-> None])
  /\ UNCHANGED <<call_in, wire_vars, program_vars_of_args>>

NextArgs == HandleCodexArgs \/ HandleCodexReplyArgs

SpecArgs == ArgsInit /\ [][NextArgs]_vars

\* ---------------------------------------- a bridge that has run for a while
\* The sessions child 1 has sent an event for and the bridge has kept in
\* _session_by_request_id: those of its tools/call requests 2..served + 1
\* (request 1 was initialize).
Served == {0, SessionCacheMax - 1, SessionCacheMax}

\* The bridge after that many codex calls on its first child, all answered.
InitCache ==
  \E served \in Served :
    /\ LET st == add(EmptyStore, StoredConv).st
       IN /\ by_id = st.by_id
          /\ order = st.order
          /\ log = st.log
    /\ first = by_id
    /\ succ = [c \in DOMAIN by_id |-> 0]
    /\ ret = [op |-> "init", cid |-> "", val |-> None]
    /\ touched = {}
    /\ pg = NoPager
    /\ WireIdle
    /\ ArgsIdle
    /\ ReaderIdle
    /\ HistIdle
    /\ client = 1
    /\ inflight = EmptyDict
    /\ should_exit = FALSE
    /\ tools_cache = None
    /\ mlist = IdNull
    /\ session_queue = <<>>
    /\ mainout = None
    /\ mcancel = 0
    /\ nclients = 1
    /\ alive = [k \in Clients |-> k = 1]
    /\ next_id = [k \in Clients |-> IF k = 1 THEN served + 2 ELSE 1]
    /\ pending = [k \in Clients |-> {}]
    /\ chan = [k \in Clients |-> EmptyDict]
    /\ sess = [k \in Clients |->
                IF k = 1
                THEN [n \in 2..(served + 1) |->
                        from_session_configured_event(Conv)]
                ELSE EmptyDict]
    /\ upin = None
    /\ issued = [k \in Clients |->
                  IF k = 1 THEN [i \in 1..(served + 1) |-> i] ELSE <<>>]
    /\ pc = [c \in Callers |-> IF c = 0 THEN "read" ELSE "idle"]
    /\ cl = [c \in Callers |-> 0]
    /\ rid = [c \in Callers |-> 0]
    /\ kind = [c \in Callers |-> "none"]
    /\ resp = [c \in Callers |-> "none"]
    /\ tool = [d \in DownIds |-> "none"]
    /\ wname = [d \in DownIds |-> None]
    /\ frame = [d \in DownIds |-> None]
    /\ nrep = [d \in DownIds |-> 0]
    /\ ncalls = 0
    /\ nread = 0

\* Its next codex calls, one at a time, with their worker, the reader of the
\* child and the session writer.
NextCache ==
  \/ AcceptToolsCall(1, "codex", None)
  \/ CallerStep(1)
  \/ SessCheck(1)
  \/ Reply(1)
  \/ Finally(1)
  \/ \E k \in 1..nclients, body \in {"ok", "error"} :
       \E v \in LineIds(k) : ReadResponse(k, v, body)
  \/ \E k \in 1..nclients : \E n \in Serving(k) : ReadEvent(k, n)
  \/ SessionWriter
  \/ \E k \in 1..nclients : ChildExit(k)

SpecCache == InitCache /\ [][NextCache]_vars

\* ------------------------------------ the reader on the other lines of a child
\* A member of a codex/event line by its Python type: none for one that is
\* absent, null or empty, else the type of its value.
MemberTypes == {"none", "dict", "list", "str"}

\* x or {} (lines 458, 459, 461): the dict the reader goes on with, or the
\* value itself.
or_empty_dict(t) == IF t = "none" THEN "dict" ELSE t

\* A codex/event line: the types of params, of params._meta and of
\* params.msg, and whether _meta.requestId is an int. A member of something
\* that is no dict does not exist.
EventLines ==
  {e \in [params : MemberTypes, meta : MemberTypes, msg : MemberTypes,
          request_id : BOOLEAN] :
     /\ e.params # "dict" => e.meta = "none" /\ e.msg = "none"
     /\ e.meta # "dict" => ~e.request_id}

\* The events whose members are not all objects.
OddEvents ==
  {e \in EventLines : {e.params, e.meta, e.msg} \cap {"list", "str"} # {}}

\* _read_stdout, lines 458-465: params.get, meta.get and, behind the test of
\* request_id, event.get raise AttributeError on a value without get, and
\* nothing in _read_stdout catches it.
read_raises(e) ==
  \/ or_empty_dict(e.params) # "dict"
  \/ or_empty_dict(e.meta) # "dict"
  \/ e.request_id /\ or_empty_dict(e.msg) # "dict"

\* Everything but the reader threads.
program_vars_of_reader ==
  <<by_id, order, log, ret, first, touched, pg, succ, upin, server_vars,
    client_vars, caller_vars, worker_vars, ncalls, nread, wire_vars,
    args_vars, hist_vars>>

\* _read_stdout, lines 457-480, on an event that is no session_configured
\* event of a request: the next line, or the end of the thread.
ReadOddEvent(k, e) ==
  /\ Running /\ k <= nclients /\ reader[k]
  /\ reader' = [reader EXCEPT ![k] = ~read_raises(e)]
  /\ UNCHANGED program_vars_of_reader

\* _read_stdout, lines 452-454: a line that is no JSON, or no JSON object.
ReadNoise(k) ==
  /\ Running /\ k <= nclients /\ reader[k]
  /\ UNCHANGED vars

\* One request at a time, which continues or deletes the stored conversation,
\* and a child that writes any line.
NextReader ==
  \/ MainStep({1}, {"codex-reply"} \cup LocalTools, {None})
  \/ ReplyWorkerStep(1)
  \/ EnvStep
  \/ \E k \in 1..nclients : \E e \in OddEvents : ReadOddEvent(k, e)
  \/ \E k \in 1..nclients : ReadNoise(k)

SpecReader == Init /\ [][NextReader]_vars

\* ------------------------------------------- the store on a disk that fails
\* _rewrite_file (lines 297-306) whose writing ends after n lines: open("w")
\* has emptied the file, and an OSError (passed over at lines 305-306) or the
\* end of the process stops the loop over _order.
_rewrite_file_stopped(byid, ord, n) == SubSeq(_rewrite_file(byid, ord), 1, n)

\* The store after an operation that yielded r and whose rewrite was stopped
\* after n lines: memory as the operation left it, the log cut short.
StoreBecomesStopped(r, n) ==
  /\ n < Len(_rewrite_file(r.st.by_id, r.st.order))
  /\ by_id' = r.st.by_id
  /\ order' = r.st.order
  /\ log' = _rewrite_file_stopped(r.st.by_id, r.st.order, n)

\* update (lines 320-331) of a stored conversation, the rewrite stopped.
UpdateStopped(cid, name, n) ==
  LET r == update(Store, cid, Some(name))
  IN /\ cid \in DOMAIN by_id
     /\ StoreBecomesStopped(r, n)
     /\ ret' = [op |-> "update", cid |-> cid, val |-> r.ret]
     /\ touched' = IF cid \in DOMAIN first THEN touched \cup {cid} ELSE touched
     /\ UNCHANGED <<first, pg, bridge_vars>>

\* increment_history (lines 358-367) of a stored conversation, the rewrite
\* stopped.
IncrementHistoryStopped(cid, n) ==
  /\ cid \in DOMAIN by_id /\ HistOf(by_id[cid]) < MaxHist
  /\ LET r == increment_history(Store, cid)
     IN /\ StoreBecomesStopped(r, n)
        /\ ret' = [op |-> "increment_history", cid |-> cid, val |-> r.ret]
  /\ touched' = IF cid \in DOMAIN first THEN touched \cup {cid} ELSE touched
  /\ UNCHANGED <<first, pg, bridge_vars>>

\* delete (lines 348-356) of a stored conversation, the rewrite stopped.
DeleteStopped(cid, n) ==
  LET r == delete(Store, cid)
  IN /\ cid \in DOMAIN by_id
     /\ StoreBecomesStopped(r, n)
     /\ ret' = [op |-> "delete", cid |-> cid, val |-> r.ret]
     /\ first' = Del(first, cid)
     /\ touched' = touched \ {cid}
     /\ UNCHANGED <<pg, bridge_vars>>

\* The store driven directly, on a disk whose writes may fail and in a
\* process that may stop (Restart is the next process on the same log).
NextDisk ==
  \/ StoreNext
  \/ \E cid \in ConvIds, name \in Names, n \in 0..MaxConv :
       UpdateStopped(cid, name, n)
  \/ \E cid \in ConvIds, n \in 0..MaxConv : IncrementHistoryStopped(cid, n)
  \/ \E cid \in ConvIds, n \in 0..MaxConv : DeleteStopped(cid, n)

SpecDisk == StoreInit /\ [][NextDisk]_vars

\* add whose failed append takes the record out of memory again.
add_failed_lost(st, info) == [st |-> st, ret |-> None]

\* add (lines 308-318) whose append to the log fails: open or write raises
\* OSError after the record went into _by_id and _order, and the except
\* clause passes over it. Nothing reaches the log.
add_failed(st, info) ==
  IF info.conversation_id \in DOMAIN st.by_id
  THEN [st |-> st, ret |-> None]
  ELSE [st |-> [by_id |-> Put(st.by_id, info.conversation_id, info),
                order |-> Append(st.order, info.conversation_id),
                log |-> st.log],
        ret |-> None]

\* An add of a new id on a disk that takes no append.
AddFailed(info) ==
  /\ info.conversation_id \notin DOMAIN by_id
  /\ StoreBecomes(add_failed(Store, info))
  /\ ret' = [op |-> "add_failed", cid |-> info.conversation_id, val |-> None]
  /\ first' = Put(first, info.conversation_id, info)
  /\ UNCHANGED <<touched, pg, bridge_vars>>

\* The store driven directly, on a disk whose appends may fail.
NextAppend ==
  \/ StoreNext
  \/ \E info \in InfosIn : AddFailed(info)

SpecAppend == StoreInit /\ [][NextAppend]_vars
\* ------------------------------------------------------------------ claims
SameWriteOnce(a, b) ==
  [a EXCEPT !.name = None, !.history_entry_count = None]
    = [b EXCEPT !.name = None, !.history_entry_count = None]

\* C6 as stated: a get of an id that add inserted and nothing deleted since
\* returns a value equal to the inserted record, whatever happened in between.
C6_GetEqualsInserted ==
  ret.op = "get" /\ ret.cid \in DOMAIN first => ret.val = Some(first[ret.cid])

\* C6 amended: until delete(r.id), get(r.id) returns a record that equals the
\* inserted r in every field but name and history_entry_count, and equals r
\* outright as long as neither update nor increment_history was applied to it.
C6_GetKeepsInserted ==
  ret.op = "get" /\ ret.cid \in DOMAIN first =>
    /\ ret.val # None
    /\ SameWriteOnce(ret.val[1], first[ret.cid])
    /\ ret.cid \notin touched => ret.val[1] = first[ret.cid]

C6_Witness ==
  /\ ret.op = "get"
  /\ ret.cid \in DOMAIN first
  /\ ret.cid \in touched
  /\ ret.val # Some(first[ret.cid])
  /\ Len(order) = MaxConv

\* C7: an add of an id already present changes neither memory nor the log, so
\* the first record stays; the store holds exactly one record per id added and
\* not deleted, and count is the number of those ids.  (add runs under the
\* store lock, so concurrent adds are interleavings of whole adds.)
C7_AddFirstWins ==
  /\ [](/\ DOMAIN by_id = DOMAIN first
        /\ count(Store) = Cardinality(DOMAIN first)
        /\ Len(order) = count(Store)
        /\ {order[i] : i \in 1..Len(order)} = DOMAIN by_id)
  /\ [][ret'.op = "add" /\ ret'.cid \in DOMAIN by_id =>
          by_id' = by_id /\ order' = order /\ log' = log]_vars

C7_Witness ==
  /\ ret.op = "add"
  /\ count(Store) = MaxConv
  /\ \E info \in InfosIn : /\ info.conversation_id = ret.cid
                           /\ by_id[ret.cid].captured_at # info.captured_at
                           /\ Len(log) = MaxConv

\* C9: following nextCursor from no cursor, the pages returned so far are a
\* prefix of the reverse insertion order, every nextCursor is the offset of
\* the first id not yet returned, and it is null exactly when none is left.
C9_PagesCoverStore ==
  /\ pg.seen = SubSeq(Reverse(order), 1, Len(pg.seen))
  /\ pg.pages > 0 /\ ~pg.done =>
       pg.cursor = Some(str(Len(pg.seen))) /\ Len(pg.seen) < Len(order)
  /\ pg.pages > 0 => (pg.done <=> Len(pg.seen) = Len(order))
  /\ pg.done => pg.cursor = None /\ pg.seen = Reverse(order)

C9_Witness ==
  /\ pg.done
  /\ pg.pages >= 2
  /\ pg.limit >= 2
  /\ Len(pg.seen) = MaxSessions

\* C10: a store newly opened on the directory holds the records, field values
\* and insertion order of the running store, and rewriting what it loaded
\* reproduces the log.
C10_ReloadEqualsMemory ==
  \A now \in LoadTimes :
    LET loaded == _load(log, now)
    IN /\ loaded.by_id = by_id
       /\ loaded.order = order
       /\ _rewrite_file(loaded.by_id, loaded.order) = log

\* ------------------------------------------------------ claims on the bridge
\* The frame a worker sends for a request that was cancelled, for one whose
\* child exited under its wait, and whether a frame is an isError tool result.
CancelledFrame(d) == Some(ErrorFrame(d, "CancelledError"))
ExitedFrame(d) == Some(ErrorFrame(d, "Codex MCP process exited"))
IsErrorResult(f, d) ==
  f # None /\ f[1].id = IdInt(d) /\ f[1].env = "result" /\ f[1].result.isError

\* C1: an accepted tools/call is answered by exactly one frame that carries
\* its id: main writes nothing when it accepts the call, the worker has
\* written no frame before its last step and exactly one when it ends, that
\* frame is a result with the call's id, and every accepted call gets there
\* unless the entry loop exits first.
C1_AnsweredOnceByWorker ==
  /\ [](\A d \in DownIds :
          /\ nrep[d] = (IF pc[d] = "fin" THEN 1 ELSE 0)
          /\ pc[d] \in {"reply", "fin"} =>
               /\ frame[d] # None
               /\ frame[d][1].id = IdInt(d)
               /\ frame[d][1].env = "result"
          /\ (pc[d] # "idle") <=> (d \in DOMAIN inflight))
  /\ [][\A d \in DownIds :
          /\ d \notin DOMAIN inflight /\ d \in DOMAIN inflight' =>
               mainout' = None
          /\ d \in DOMAIN inflight /\ d \notin DOMAIN inflight' /\ Running' =>
               pc[d] = "fin" /\ nrep[d] = 1]_vars
  /\ \A d \in DownIds :
       (d \in DOMAIN inflight) ~> (pc[d] = "fin" \/ should_exit)

C1_Witness ==
  /\ pc[1] = "fin"
  /\ nrep[1] = 1
  /\ ~frame[1][1].result.isError
  /\ ncalls = MaxCalls

\* C2 as stated: whatever the tool and the stage, the result of a request
\* whose $/cancelRequest has arrived is the cancellation error.
C2_CancelledRepliesCancellation ==
  \A d \in DownIds :
    pc[d] = "reply" /\ inflight[d].cancel_event => frame[d] = CancelledFrame(d)

\* C2 amended: a $/cancelRequest for an id in flight sets that request's
\* cancel signal, which stays set until the worker ends, however many cancels
\* arrive; the worker ends with one result; a worker that makes a check of
\* its upstream wait or a turn of its session wait with the signal set
\* replies the cancellation error, and leaves no pending entry behind.
C2_CancelEndsWaits ==
  /\ [][\A d \in DownIds :
          /\ d \in DOMAIN inflight /\ d \in DOMAIN inflight'
               /\ inflight[d].cancel_event => inflight'[d].cancel_event
          /\ pc[d] \in {"sess_check", "recover"} /\ CancelSet(d)
               /\ pc'[d] # pc[d] /\ Running' =>
               pc'[d] = "reply" /\ frame'[d] = CancelledFrame(d)
          /\ pc[d] = "wait" /\ CancelSet(d) /\ pc'[d] = "reply" =>
               /\ frame'[d] = CancelledFrame(d)
               /\ rid[d] \notin pending'[cl[d]]]_vars
  /\ [](\A d \in DownIds : nrep[d] <= 1)
  /\ \A d \in DownIds :
       (d \in DOMAIN inflight /\ inflight[d].cancel_event)
         ~> (pc[d] = "fin" \/ should_exit)

C2_Witness ==
  /\ pc[1] = "reply"
  /\ inflight[1].cancel_event
  /\ frame[1] = CancelledFrame(1)
  /\ upin # None

\* C3 as stated: a response reaches a waiter only if its id is the id of the
\* waiter's request; a line with any other id is dropped.
C3_DeliveredIdIsRequestId ==
  \A k \in Clients : \A r \in DOMAIN chan[k] : chan[k][r].id = IdInt(r)

\* C4: the ids _new_id returned for one child are 1, 2, 3, ... in the order
\* of its calls, whichever threads made them.
C4_IdsCountUp ==
  \A k \in Clients :
    /\ \A i \in 1..Len(issued[k]) : issued[k][i] = i
    /\ next_id[k] = Len(issued[k]) + 1

C4_Witness ==
  /\ cl[1] = cl[2]
  /\ cl[1] # 0
  /\ pc[1] = "send" /\ pc[2] = "send"
  /\ kind[1] = "call" /\ kind[2] = "call"
  /\ rid[1] # rid[2]
  /\ Len(issued[cl[1]]) = 3

\* C5 as stated: a waiter whose child has exited while its request is
\* pending ends its wait at its next check with the process-exited failure.
C5_ExitedWaiterFailsExited ==
  [][\A d \in DownIds :
       pc[d] = "wait" /\ ~alive[cl[d]] /\ rid[d] \in pending[cl[d]]
         /\ pc'[d] # "wait" /\ Running' =>
         /\ pc'[d] = "reply"
         /\ frame'[d] = ExitedFrame(d)
         /\ rid[d] \notin pending'[cl[d]]]_vars

\* C5 amended: a waiter whose child has exited while its request is pending
\* ends its wait at its next check, and its pending entry goes; a worker then
\* replies an isError result, which is the process-exited failure unless the
\* request's cancel signal is set, and then the cancellation error; an
\* entry-loop waiter goes back to reading. No such waiter stays in its wait.
C5_ExitedWaiterFails ==
  /\ [][\A c \in Callers :
          pc[c] = "wait" /\ ~alive[cl[c]] /\ rid[c] \in pending[cl[c]]
            /\ pc'[c] # "wait" /\ Running' =>
            /\ rid[c] \notin pending'[cl[c]]
            /\ pc'[c] = PcAfterRaise(c)
            /\ c # 0 => /\ IsErrorResult(frame'[c], c)
                        /\ frame'[c] = IF CancelSet(c) THEN CancelledFrame(c)
                                       ELSE ExitedFrame(c)]_vars
  /\ \A c \in Callers :
       (pc[c] = "wait" /\ ~alive[cl[c]]) ~> (pc[c] # "wait" \/ should_exit)

C5_Witness ==
  /\ pc[1] = "reply"
  /\ frame[1] = ExitedFrame(1)
  /\ 1 \notin {k \in Clients : alive[k]}
  /\ pending[1] = {}

\* C8: the stored historyEntryCount of the conversation is its count when it
\* was inserted (absent counted as 0) plus the number of codex-reply calls
\* that got a non-error upstream result for it since; no other step of the
\* bridge changes the count.
C8_HistoryCountsReplies ==
  /\ [](Conv \in DOMAIN by_id =>
          /\ Conv \in DOMAIN first /\ Conv \in DOMAIN succ
          /\ HistOf(by_id[Conv]) = HistOf(first[Conv]) + succ[Conv]
          /\ succ[Conv] > 0 =>
               by_id[Conv].history_entry_count = Some(HistOf(by_id[Conv])))
  /\ [][\A d \in DownIds :
          Conv \in DOMAIN by_id /\ Conv \in DOMAIN by_id'
            /\ by_id'[Conv].history_entry_count
                 # by_id[Conv].history_entry_count =>
            \E e \in DownIds : /\ pc[e] = "post"
                               /\ resp[e] = "ok"
                               /\ pc'[e] = "reply"
                               /\ ~frame'[e][1].result.isError]_vars

C8_Witness ==
  /\ Conv \in DOMAIN by_id
  /\ succ[Conv] = 2
  /\ by_id[Conv].history_entry_count = Some(2)
  /\ pc[1] = "reply" /\ pc[2] = "reply"

\* --------------------------------------------------- claims on the dispatcher
\* Everything of the bridge but what main writes in a step.
EntryState ==
  <<driver_vars, disk_vars, srv_vars, client_vars, caller_vars, worker_vars,
    ncalls, nread>>
Range(q) == {q[i] : i \in 1..Len(q)}
IsToolsList(f) ==
  f # None /\ f[1].env = "result" /\ "tools" \in DOMAIN f[1].result
BridgeNames ==
  {"codex", "codex-reply", "codex-bridge-info", "codex-bridge-options",
   "codex-bridge-sessions", "codex-bridge-session"}

\* C11 as stated: a tools/list response main writes names codex, codex-reply,
\* codex-bridge-info, codex-bridge-options, codex-bridge-sessions and
\* codex-bridge-session, whatever the child answered.
C11_ToolsListHasBridgeNames ==
  IsToolsList(mainout) => BridgeNames \subseteq Range(mainout[1].result.tools)

\* C12: a worker's frame is a result envelope; when the upstream call raised
\* (no child, child exited, deadline passed, cancelled) or the child answered
\* an error envelope, the result is isError:true.
C12_FailuresAreErrorResults ==
  /\ [](\A d \in DownIds : frame[d] # None => frame[d][1].env = "result")
  /\ [][\A d \in DownIds :
          /\ pc[d] \in {"gc", "send", "wait", "assign", "gc_ret"}
               /\ pc'[d] = "reply" => IsErrorResult(frame'[d], d)
          /\ pc[d] \in {"sess_check", "post"} /\ resp[d] = "error"
               /\ pc'[d] = "reply" => IsErrorResult(frame'[d], d)]_vars

C12_Witness ==
  /\ pc[1] = "reply"
  /\ IsErrorResult(frame[1], 1)
  /\ frame[1][1].result.content.msg[1]
       = "Timed out waiting for Codex MCP response to request "
  /\ tool[1] = "codex"

\* The tools/call lines with the id 1 whose params are no object, whose name
\* is no string or whose arguments are no object.
MalformedCalls ==
  {Msg("tools/call", TRUE, IdInt(1), p) :
     p \in {ArrayParams, EmptyArrayParams, Params(IdNull, JNum5, Absent)}
             \cup {Params(IdNull, JStr(t), a) :
                     t \in EntryTools, a \in {JArray, JEmptyArray}}}

\* C13 as stated: on a malformed tools/call the entry loop writes an
\* isError:true result with the call's id and goes on reading; no in-flight
\* entry appears and no worker starts.
C13_MalformedCallIsErrorResult ==
  [][\A m \in MalformedCalls :
       ReadLine(ObjectLine(m)) =>
         /\ IsErrorResult(mainout', 1)
         /\ pc' = pc
         /\ inflight' = inflight]_vars

\* C14: a step in which main answers a tools/call with the id d has d in
\* flight, writes an isError:true result for d, and leaves the registry, the
\* cancel signal of d and its worker with the frame it has as they were.
C14_DuplicateRejected ==
  [][\A d \in DownIds :
       mainout' # None /\ mainout'[1].id = IdInt(d) =>
         /\ d \in DOMAIN inflight
         /\ IsErrorResult(mainout', d)
         /\ mainout'[1].result.content.msg
              = <<"Duplicate request id (already in-flight)">>
         /\ UNCHANGED <<inflight, pc, frame, nrep, tool, wname, ncalls>>]_vars

C14_Witness ==
  /\ mainout = Some(DuplicateFrame(1))
  /\ pc[1] = "wait"
  /\ inflight[1].cancel_event

\* The result of a codex call whose session was not captured.
NoSessionResult(d) ==
  Result(d, <<"Failed to capture session info">>, None, TRUE)

\* C15: a codex worker that has its upstream reply and ends its session wait
\* with no session_configured event for its request, and not cancelled,
\* replies isError:true with conversationId null and the diagnostic, also
\* when the upstream reply was a success; the session wait ends.
C15_NoSessionIsError ==
  /\ [][\A d \in DownIds :
          pc[d] = "sess_check" /\ pc'[d] = "reply" /\ ~CancelSet(d)
            /\ rid[d] \notin DOMAIN sess[cl[d]] =>
            /\ frame'[d] = NoSessionResult(d)
            /\ IsErrorResult(frame'[d], d)
            /\ frame'[d][1].result.content.conversationId = None]_vars
  /\ \A d \in DownIds :
       (pc[d] = "sess_check") ~> (pc[d] # "sess_check" \/ should_exit)

C15_Witness ==
  /\ pc[1] = "reply"
  /\ frame[1] = NoSessionResult(1)
  /\ inflight[1].upstream_request_id # None
  /\ ~inflight[1].cancel_event

\* The $/cancelRequest line whose params name the id v.
CancelLine(v) ==
  ObjectLine(Msg("$/cancelRequest", FALSE, IdNull, Params(v, Absent, Absent)))

\* C16 as stated: a $/cancelRequest whose id is not the id of a request in
\* flight changes nothing: main writes nothing downstream or upstream, and
\* the registry with every cancel signal stays as it was.
C16_UnknownCancelChangesNothing ==
  [][\A v \in {IdInt(1), IdInt(2), IdTrue, IdStr(1)} :
       v \notin {IdInt(d) : d \in DOMAIN inflight} /\ ReadLine(CancelLine(v)) =>
         /\ mainout' = None
         /\ upin' = None
         /\ UNCHANGED EntryState]_vars

\* C18: a blank line gets no reply, a line json.loads rejects one error with
\* id null and code -32700, a JSON value that is no object one error with id
\* null and code -32600; the bridge's state stays as it was and the loop
\* reads on.
C18_BadLinesAnswered ==
  /\ [][ReadLine(BlankLine) =>
          mainout' = None /\ UNCHANGED EntryState]_vars
  /\ [][ReadLine(GarbageLine) =>
          /\ mainout' = Some(_jsonrpc_error(IdNull, -32700, <<"Parse error">>))
          /\ UNCHANGED EntryState]_vars
  /\ [][ReadLine(ValueLine) =>
          /\ mainout' = Some(_jsonrpc_error(IdNull, -32600,
                                            <<"Invalid Request">>))
          /\ UNCHANGED EntryState]_vars
  /\ [](mainout # None /\ mainout[1].env = "error" /\ mainout[1].id = IdNull
          => Running /\ pc[0] = "read")

C18_Witness ==
  /\ mainout = Some(_jsonrpc_error(IdNull, -32700, <<"Parse error">>))
  /\ 1 \in DOMAIN inflight
  /\ tools_cache # None

\* The messages with a method handle has no branch for, or with no method.
UnknownMsgs ==
  {Msg(m, h, v, NoParams) :
     m \in {"foo", ""}, h \in BOOLEAN,
     v \in {IdInt(1), IdStr(1), IdNull, IdTrue, IdArray}}

\* C19: a message with such a method gets the error -32601 with its id when
\* its id is a string or a number, and no reply when it has no id member (or
\* a null one); in no case does the bridge's state change.
C19_UnknownMethod ==
  [][\A m \in UnknownMsgs :
       ReadLine(ObjectLine(m)) =>
         /\ UNCHANGED EntryState
         /\ m.has_id /\ m.id.t \in {"int", "str"} =>
              /\ mainout' # None
              /\ mainout'[1].env = "error"
              /\ mainout'[1].result.code = -32601
              /\ mainout'[1].id = m.id
         /\ ~m.has_id \/ m.id = IdNull => mainout' = None]_vars

C19_Witness ==
  /\ mainout = Some(_jsonrpc_error(IdStr(1), -32601,
                                   <<"Method not found: ", "foo">>))
  /\ 1 \in DOMAIN inflight

\* The shutdown requests.
ShutdownMsgs == {Msg("shutdown", TRUE, v, NoParams) : v \in {IdInt(1), IdStr(1)}}

\* C20: once exit was handled no step is taken: no line is dispatched and no
\* frame written. A shutdown request is answered with the null result and
\* leaves the exit flag unset and the loop reading, and exit sets the flag.
C20_ExitStopsLoop ==
  /\ [][should_exit => UNCHANGED vars]_vars
  /\ [][\A m \in ShutdownMsgs :
          ReadLine(ObjectLine(m)) =>
            /\ mainout' = Some(_jsonrpc_response(m.id, None))
            /\ ~should_exit' /\ pc'[0] = "read"
            /\ UNCHANGED EntryState]_vars
  /\ [][ReadLine(ObjectLine(Msg("exit", FALSE, IdNull, NoParams))) =>
          should_exit' /\ mainout' = None]_vars

C20_Witness ==
  /\ should_exit
  /\ mainout = None
  /\ inflight = EmptyDict

\* ------------------------------------------------------- claims on the wire
\* Thread t is between the start of its write and the end of its flush on s.
Writing(t, s) == wst[t] = s /\ wpc[t] \in {"written", "flushed"}

\* The pieces of q pair up into whole frames, but for a last first piece.
WholeFrames(q) ==
  \A i \in 1..Len(q) :
    IF i % 2 = 1
    THEN q[i].part = 1
    ELSE q[i].part = 2 /\ q[i].by = q[i - 1].by /\ q[i].frame = q[i - 1].frame

\* C17: on either stream the pieces of two frames never interleave: while a
\* thread is between the start of its write and the end of its flush no other
\* thread's piece reaches the stream, and what is on the stream is whole
\* frames, the last one perhaps still being written by the thread in _send.
C17_FramesNeverInterleave ==
  /\ [](\A s \in Streams :
          /\ WholeFrames(wire[s])
          /\ Len(wire[s]) % 2 = 1 =>
               \E t \in Writers :
                 /\ Writing(t, s) /\ wpc[t] = "written"
                 /\ wire[s][Len(wire[s])].by = t
          /\ \A t, u \in Writers : Writing(t, s) /\ Writing(u, s) => t = u)
  /\ [][\A s \in Streams, t \in Writers :
          Writing(t, s) /\ wire'[s] # wire[s] =>
            wire'[s][Len(wire'[s])].by = t]_vars

\* Both threads have sent on one stream, one of them waiting for the lock
\* meanwhile, and a frame is being written.
C17_Witness ==
  /\ Len(wire["stdout"]) = 3
  /\ wire["stdout"][1].by = 1
  /\ wire["stdout"][3].by = 2
  /\ wpc[2] = "written" /\ wpc[1] = "idle"
  /\ Len(wire["stdin"]) >= 2

\* ------------------------------------------- claims on the tools' arguments
\* C21 as stated: the timeout of the upstream call is 600000 ms without a
\* timeoutMs, 1000 ms for one that is 0 or negative, 3600000 ms for one above
\* 3600000, and the value clamped into [1000, 3600000] otherwise, for codex
\* and for codex-reply.
C21_TimeoutClamped ==
  call_out # None =>
    LET v == call_in[1].timeoutMs
        t == call_out[1].timeout_ms
    IN /\ v = MsAbsent => t = 600000
       /\ v.t = "int" /\ v.n <= 0 => t = 1000
       /\ v.t = "int" /\ v.n > 3600000 => t = 3600000
       /\ v.t = "int" /\ v.n >= 1 /\ v.n <= 3600000 =>
            t = (IF v.n < 1000 THEN 1000 ELSE v.n)

\* The keys and values of a config, none for a config that is no object.
KeysOf(config) == IF is_dict(config) THEN DOMAIN config.a ELSE {}

\* C22 as stated: every key of the caller's config is in the config that goes
\* upstream with the caller's value, and the keys the bridge adds are
\* model_reasoning_effort (the shortcut, or xhigh without one) and
\* model_reasoning_summary (the shortcut, when given).
C22_CallerConfigKept ==
  call_out # None /\ call_in[1].tool = "codex" =>
    LET a == call_in[1]
        o == call_out[1].config
    IN /\ \A key \in KeysOf(a.config) :
            key \in KeysOf(o) /\ o.a[key] = a.config.a[key]
       /\ KeysOf(o) \ KeysOf(a.config)
            \subseteq {"model_reasoning_effort", "model_reasoning_summary"}
       /\ "model_reasoning_effort" \in KeysOf(o) \ KeysOf(a.config) =>
            o.a["model_reasoning_effort"]
              = (IF a.reasoningEffort.t = "str" /\ a.reasoningEffort.s # ""
                 THEN a.reasoningEffort.s ELSE "xhigh")
       /\ "model_reasoning_summary" \in KeysOf(o) \ KeysOf(a.config) =>
            o.a["model_reasoning_summary"] = a.reasoningSummary.s

\* The default of a task type, as the claim gives it.
TaskDefault(task) ==
  IF task.t = "str" /\ task.s \in {"discussion", "research"}
  THEN "gpt-5.2" ELSE "gpt-5.2-codex"

\* C23: the model of a codex call is the task type's default without a
\* warning when no model is asked for, the model asked for without a warning
\* when the catalogue has it, and the task type's default with a warning
\* otherwise; the defaults are the same for every call.
C23_ModelResolved ==
  call_out # None /\ call_in[1].tool = "codex" =>
    LET a == call_in[1]
        o == call_out[1]
    IN /\ a.model \in {Absent, JStr("")} =>
            o.model = TaskDefault(a.taskType) /\ o.warning = None
       /\ a.model \notin {Absent, JStr("")} /\ a.model.s \in a.available =>
            o.model = a.model.s /\ o.warning = None
       /\ a.model \notin {Absent, JStr("")} /\ a.model.s \notin a.available =>
            o.model = TaskDefault(a.taskType) /\ o.warning # None

C23_Witness ==
  /\ call_out # None
  /\ call_in[1].model = JStr("o3")
  /\ call_in[1].taskType = JStr("research")
  /\ call_in[1].available = CHATGPT_AUTH_MODELS
  /\ call_out[1].model = "gpt-5.2"
  /\ call_out[1].warning # None

\* ----------------------------------------------- claims on the child process
\* The children that were started and have not exited.
LiveChildren == {k \in 1..nclients : alive[k]}

\* C24 as stated: at most one child process the bridge started is live, also
\* when the workers and the entry loop ask for the client at the same time.
C24_OneLiveChild == Cardinality(LiveChildren) <= 1

\* C25 as stated: once a codex call that gave a name has its result with the
\* session captured, and the session writer has taken every record off its
\* queue, the store's record of the conversation has that name, in get and
\* in the log.
C25_NameStored ==
  \A d \in DownIds :
    /\ pc[d] = "reply" /\ tool[d] = "codex" /\ wname[d] # None
    /\ frame[d] # None /\ frame[d][1].result.content.conversationId = Some(Conv)
    /\ session_queue = <<>>
    => /\ get(Store, Conv) # None
       /\ get(Store, Conv)[1].name = wname[d]
       /\ \E i \in 1..Len(log) :
            log[i] = _session_to_record(with_name(by_id[Conv], wname[d][1]))

\* C26 as stated: while a codex call waits for its response or for its
\* session, a session_configured event the reader reads for the call's
\* upstream id puts the session where the call finds it, the session stays
\* there as long as the call waits, and the call that finds it replies with
\* its conversationId.
C26_EventGivesSession ==
  /\ [][\A d \in DownIds :
          /\ pc[d] \in {"wait", "sess_check"} /\ kind[d] = "call"
          /\ tool[d] = "codex" /\ ReadEvent(cl[d], rid[d])
          => /\ rid[d] \in DOMAIN sess'[cl[d]]
             /\ sess'[cl[d]][rid[d]].conversation_id = Conv]_vars
  /\ [][\A d \in DownIds :
          /\ pc[d] \in {"wait", "sess_check"} /\ kind[d] = "call"
          /\ tool[d] = "codex" /\ pc'[d] \in {"wait", "sess_check"}
          /\ rid[d] \in DOMAIN sess[cl[d]]
          => rid[d] \in DOMAIN sess'[cl[d]]]_vars
  /\ [][\A d \in DownIds :
          /\ pc[d] = "sess_check" /\ pc'[d] = "reply" /\ ~CancelSet(d)
          /\ rid[d] \in DOMAIN sess[cl[d]]
          => /\ frame'[d] # None
             /\ frame'[d] # NoSessionResult(d)
             /\ frame'[d][1].result.content.conversationId = Some(Conv)]_vars

\* The upstream requests of child k a caller is sending or waiting on.
InProgress(k) ==
  {rid[c] : c \in {e \in Callers : cl[e] = k /\ pc[e] \in {"send", "wait"}}}

\* C27 as stated: the pending map of a client holds entries only for the
\* requests a caller is sending or waiting on: a request that has returned
\* or failed, for whatever reason, has none, and the map is empty when no
\* upstream call is in progress.
C27_PendingOnlyInProgress ==
  \A k \in Clients : pending[k] \subseteq InProgress(k)

\* C28: the in-flight registry holds the id d exactly while the worker of an
\* accepted tools/call with the id d has not ended: from before the worker's
\* first step, through the writing of its reply, up to its finally clause,
\* whatever the outcome; with no worker the registry is empty.
C28_RegistryTracksWorkers ==
  /\ DOMAIN inflight \subseteq DownIds
  /\ \A d \in DownIds : d \in DOMAIN inflight <=> pc[d] # "idle"
  /\ \A d \in DownIds : pc[d] # "idle" /\ nrep[d] = 0 => d \in DOMAIN inflight

C28_Witness ==
  /\ pc[1] = "fin" /\ nrep[1] = 1
  /\ IsErrorResult(frame[1], 1)
  /\ 1 \in DOMAIN inflight
  /\ pc[2] = "idle" /\ 2 \notin DOMAIN inflight
  /\ ncalls = 2

\* C29: no line of a child ends the reader of its stdout: whatever the child
\* has written, the reader thread of every client is still reading, so that
\* a later response for a pending id is delivered.
C29_ReaderSurvivesAnyLine == \A k \in Clients : reader[k]

\* C30: an update, an incrementHistory or a delete leaves the log either as
\* it was or as the complete rewrite of the store the operation leaves in
\* memory, also when the write fails or the process stops: never a log that
\* is cut short.
C30_RewriteIsAtomic ==
  [][ret'.op \in {"update", "increment_history", "delete"}
       => log' \in {log, _rewrite_file(by_id', order')}]_vars

\* C31: a record in the store has the captured_at add inserted it with and,
\* but for name and history_entry_count, the field values of that insert;
\* no operation of the store on a record it keeps changes its captured_at or
\* lowers its history_entry_count.
C31_WriteOnceFields ==
  /\ [](\A c \in DOMAIN by_id :
          /\ c \in DOMAIN first
          /\ by_id[c].captured_at = first[c].captured_at
          /\ SameWriteOnce(by_id[c], first[c])
          /\ HistOf(by_id[c]) >= HistOf(first[c]))
  /\ [][ret'.op # "restart" =>
          \A c \in DOMAIN by_id \cap DOMAIN by_id' :
            /\ by_id'[c].captured_at = by_id[c].captured_at
            /\ HistOf(by_id'[c]) >= HistOf(by_id[c])
            /\ SameWriteOnce(by_id'[c], by_id[c])]_vars

C31_Witness ==
  \E c \in DOMAIN by_id :
    /\ c \in touched
    /\ by_id[c].name # None /\ first[c].name = None
    /\ HistOf(by_id[c]) = MaxHist /\ HistOf(first[c]) = 0
    /\ first[c].model # None
    /\ ret.op = "add" /\ ret.cid = c

\* The $/cancelRequest notification for request r of child k.
CancelNote(k, r) == Some([client |-> k, method |-> "$/cancelRequest", id |-> r])

C33_CancelsStayOnTheirChild ==
  [][/\ upin' # None => upin'[1].id \in Range(issued[upin'[1].client])
     /\ nclients' # nclients => mcancel = 0]_vars

\* C34: a worker whose wait ends while the response of its request is on its
\* channel goes on with that response: it does not end the wait on the
\* cancel signal, the exit of the child or the deadline.
C34_DeliveredResponseIsReceived ==
  [][\A d \in DownIds :
       pc[d] = "wait" /\ rid[d] \in DOMAIN chan[cl[d]]
         /\ chan[cl[d]][rid[d]].id = IdInt(rid[d])
         /\ pc'[d] # "wait" /\ Running' =>
         pc'[d] # "reply"]_vars

\* C35: once a codex worker has written a reply that carries the
\* conversationId of its session, the store holds a record of that
\* conversation.
C35_RepliedSessionIsStored ==
  \A d \in DownIds :
    /\ pc[d] = "fin" /\ nrep[d] = 1 /\ tool[d] = "codex"
    /\ frame[d][1].result.content.conversationId = Some(Conv)
    => get(Store, Conv) # None

\* The conversations that have a record on the session queue.
Queued == {session_queue[i].conversation_id : i \in 1..Len(session_queue)}

\* C36: a session_configured event the reader accepts while the queue has
\* room puts its record on the session queue; with the writer running, a
\* conversation on the queue gets its record into the store (or the bridge
\* exits first); and a record leaves the store only in the delete of a
\* delete-session call.
C36_EventsReachTheStore ==
  /\ [][\A k \in Clients : \A n \in 1..MaxCalls + 1 :
          ReadEvent(k, n) /\ Len(session_queue) < SessionQueueMax =>
            session_queue' =
              Append(session_queue, from_session_configured_event(Conv))]_vars
  /\ \A c \in ConvIds : (c \in Queued) ~> (c \in DOMAIN by_id \/ should_exit)
  /\ [][\A c \in DOMAIN by_id :
          c \notin DOMAIN by_id' =>
            \E d \in DownIds : /\ pc[d] = "local" /\ pc'[d] = "reply"
                               /\ tool[d] \in LocalTools]_vars

C36_Witness ==
  /\ Conv \in DOMAIN by_id
  /\ by_id[Conv] = from_session_configured_event(Conv)
  /\ session_queue = <<>>
  /\ \E k \in Clients : sess[k] # EmptyDict
  /\ nread >= 1

\* C37: the map of the sessions by upstream request id of a client never has
\* more than 2048 entries, and the event whose entry would be one more
\* leaves the map empty.
C37_SessionMapBounded ==
  /\ [](\A k \in Clients : Cardinality(DOMAIN sess[k]) <= SessionCacheMax)
  /\ [][\A k \in Clients :
          sess'[k] # sess[k] /\ Running' =>
            \/ /\ DOMAIN sess[k] \subseteq DOMAIN sess'[k]
               /\ Cardinality(DOMAIN sess'[k]) <= SessionCacheMax
            \/ /\ sess'[k] = EmptyDict
               /\ Cardinality(DOMAIN sess[k]) = SessionCacheMax]_vars

C37_Witness ==
  /\ sess[1] = EmptyDict
  /\ next_id[1] = SessionCacheMax + 3
  /\ pc[1] = "sess_check"
  /\ session_queue # <<>>

\* C38: with no call in progress, every worker ended, the map of the
\* sessions by upstream request id of every client is empty: the entry of a
\* call went when the call completed.
C38_SessionEntriesConsumed ==
  (\A d \in DownIds : pc[d] = "idle") =>
    \A k \in Clients : sess[k] = EmptyDict

\* The records of memory that are in the log, line for line.
Logged == {c \in DOMAIN by_id :
             \E i \in 1..Len(log) : log[i] = _session_to_record(by_id[c])}

\* C39: an add whose append fails returns None and leaves the record in
\* memory and the log as it was; from then on get and count answer from
\* memory, which holds every id added and not deleted, an add of an id in
\* memory changes nothing, and a rewrite puts every record of memory into
\* the log.
C39_FailedAppendKeepsMemory ==
  /\ [][ret'.op = "add_failed" =>
          /\ ret'.val = None
          /\ ret'.cid \in DOMAIN by_id' /\ by_id'[ret'.cid] = first'[ret'.cid]
          /\ order' = Append(order, ret'.cid)
          /\ log' = log]_vars
  /\ [](/\ DOMAIN by_id = DOMAIN first
        /\ count(Store) = Cardinality(DOMAIN first)
        /\ \A c \in DOMAIN first :
             get(Store, c) # None /\ SameWriteOnce(get(Store, c)[1], first[c])
        /\ ret.op = "get" => ret.val = get(Store, ret.cid)
        /\ ret.op = "count" => ret.val = Cardinality(DOMAIN first))
  /\ [][ret'.op = "add" /\ ret'.cid \in DOMAIN by_id =>
          by_id' = by_id /\ order' = order /\ log' = log]_vars
  /\ [][((ret'.op = "delete" /\ ret'.val = TRUE)
           \/ (ret'.op \in {"update", "increment_history"}
                 /\ ret'.val # None)) =>
          /\ log' = _rewrite_file(by_id', order')
          /\ Logged' = DOMAIN by_id']_vars

C39_Witness ==
  /\ ret.op = "add_failed"
  /\ get(Store, ret.cid) = Some(first[ret.cid])
  /\ count(Store) = MaxConv
  /\ ret.cid \notin Logged
  /\ Len(log) = MaxConv - 1

\* C40: a tools/list request answered from the cache gets a list that was
\* composed from the client that is current, or the bridge's own list: once
\* the client was replaced the list is composed again.
C40_CacheFollowsClient ==
  [][pc[0] = "read" /\ tools_cache # None /\ IsToolsList(mainout') =>
       cache_from \in {0, client}]_vars

====
